---------------------------- MODULE Spec2Model ----------------------------
(***************************************************************************)
(* A model of the scalable space engine: the geometry kernel, the entity,  *)
(* the fixed-extent matter tree, the growable space tree and the public    *)
(* operations of GrowableSpaceTree (run_actions, run_movements, refresh).  *)
(* Every operator keeps the name of the Rust function it is translated     *)
(* from; Rust methods of a type T are written T_method where the bare name *)
(* would clash.                                                            *)
(***************************************************************************)
EXTENDS Integers, Sequences, FiniteSets, TLC

(***************************************************************************)
(* Bounds of the model (not program constants).                            *)
(***************************************************************************)
\* the largest number of entities the universe ever holds
MaxEntities == 2
\* the largest number of run_movements passes in one behaviour
MaxTicks == 2

(***************************************************************************)
(* geometry.rs : integer arithmetic                                        *)
(***************************************************************************)
\* Rust's i64 division: the quotient is truncated towards zero
TruncDiv(a, b) ==
    IF b = 0 THEN 0
    ELSE IF (a >= 0) = (b > 0)
         THEN (IF a >= 0 THEN a ELSE -a) \div (IF b > 0 THEN b ELSE -b)
         ELSE -((IF a >= 0 THEN a ELSE -a) \div (IF b > 0 THEN b ELSE -b))

\* `b as i64` / `b as usize` of a bool
BoolToInt(b) == IF b THEN 1 ELSE 0

Vec3(x, y, z) == [x |-> x, y |-> y, z |-> z]

ZERO == Vec3(0, 0, 0)

add(self, other) == Vec3(self.x + other.x, self.y + other.y, self.z + other.z)

sub(self, other) == Vec3(self.x - other.x, self.y - other.y, self.z - other.z)

mul_scalar(self, v) == Vec3(self.x * v, self.y * v, self.z * v)

\* (x as f64 / v) as i64, for the integral v the program uses: the cast
\* truncates towards zero and a division by 0.0 (NaN or infinity on a zero
\* force) is only reached with a zero numerator in this model
div_float(self, v) == Vec3(TruncDiv(self.x, v), TruncDiv(self.y, v), TruncDiv(self.z, v))

\* the cube with its upper faces included
is_inside_centered_cube_closed(self, side_length) ==
    LET min == TruncDiv(-side_length, 2)
        max == TruncDiv(side_length, 2)
    IN  /\ self.x >= min /\ self.x <= max
        /\ self.y >= min /\ self.y <= max
        /\ self.z >= min /\ self.z <= max

is_inside_centered_cube(self, side_length) ==
    LET min == TruncDiv(-side_length, 2)
        max == TruncDiv(side_length, 2) - 1
    IN  /\ self.x >= min /\ self.x <= max
        /\ self.y >= min /\ self.y <= max
        /\ self.z >= min /\ self.z <= max

(***************************************************************************)
(* geometry.rs : Direction, the six axis directions                        *)
(***************************************************************************)
Xp == 0
Yp == 1
Zp == 2
Xn == 3
Yn == 4
Zn == 5
NB_DIRECTIONS == 6

direction_components(self) ==
    (IF self.x > 0 THEN <<Xp>> ELSE IF self.x < 0 THEN <<Xn>> ELSE <<>>)
    \o (IF self.y > 0 THEN <<Yp>> ELSE IF self.y < 0 THEN <<Yn>> ELSE <<>>)
    \o (IF self.z > 0 THEN <<Zp>> ELSE IF self.z < 0 THEN <<Zn>> ELSE <<>>)

(***************************************************************************)
(* geometry.rs : FineDirection                                             *)
(***************************************************************************)
\* component with the upper bound included in the middle interval
component_closed(pos, size) ==
    IF pos < -size THEN 0 ELSE IF pos <= size THEN 1 ELSE 2

component(pos, size) ==
    IF pos < -size THEN 0 ELSE IF pos < size THEN 1 ELSE 2

\* the discriminant of the FineDirection, 0 .. 26
from_outsider_pos(pos, size) ==
    component(pos.x, size) * 3 * 3 + component(pos.y, size) * 3 + component(pos.z, size)

\* self is the discriminant; val is reduced modulo 3 before y is read
equivalent_vec(self) ==
    Vec3(TruncDiv(self, 3) - 1,
         TruncDiv(self % 3, 3) - 1,
         ((self % 3) % 3) - 1)

outsider_direction_vec(pos, size) ==
    Vec3(component(pos.x, TruncDiv(size, 2)) - 1,
         component(pos.y, TruncDiv(size, 2)) - 1,
         component(pos.z, TruncDiv(size, 2)) - 1)

(***************************************************************************)
(* geometry.rs : Quadrant, an octant coded on three bits                   *)
(* (x = bit 2, y = bit 1, z = bit 0)                                       *)
(***************************************************************************)
NB_QUADRANTS == 8
Quadrants == 0 .. (NB_QUADRANTS - 1)

x_p(q) == (q \div 4) % 2 # 0
y_p(q) == (q \div 2) % 2 # 0
z_p(q) == q % 2 # 0

from_pos(pos) ==
    BoolToInt(pos.x >= 0) * 4 + BoolToInt(pos.y >= 0) * 2 + BoolToInt(pos.z >= 0)

\* the match table of Quadrant::invert, in the order of the enum
invert(q) == <<7, 6, 5, 4, 3, 2, 1, 0>>[q + 1]

\* move_to with the bits of the result in the order z, y, x
move_to_zyx(q, direction) ==
    LET x == BoolToInt(x_p(q)) + direction.x
        y == BoolToInt(y_p(q)) + direction.y
        z == BoolToInt(z_p(q)) + direction.z
    IN  IF x > 1 \/ y > 1 \/ z > 1 \/ x < 0 \/ y < 0 \/ z < 0
        THEN [some |-> FALSE, val |-> 0]
        ELSE [some |-> TRUE, val |-> z * 4 + y * 2 + x]

\* Option<Quadrant>: [some |-> FALSE, val |-> 0] is None
move_to(q, direction) ==
    LET x == BoolToInt(x_p(q)) + direction.x
        y == BoolToInt(y_p(q)) + direction.y
        z == BoolToInt(z_p(q)) + direction.z
    IN  IF x > 1 \/ y > 1 \/ z > 1 \/ x < 0 \/ y < 0 \/ z < 0
        THEN [some |-> FALSE, val |-> 0]
        ELSE [some |-> TRUE, val |-> x * 4 + y * 2 + z]

\* mirror with | in place of ^
mirror_or(q, direction) ==
    LET x == x_p(q) \/ (direction.x # 0)
        y == y_p(q) \/ (direction.y # 0)
        z == z_p(q) \/ (direction.z # 0)
    IN  BoolToInt(x) * 4 + BoolToInt(y) * 2 + BoolToInt(z)

mirror(q, direction) ==
    LET x == x_p(q) # (direction.x # 0)
        y == y_p(q) # (direction.y # 0)
        z == z_p(q) # (direction.z # 0)
    IN  BoolToInt(x) * 4 + BoolToInt(y) * 2 + BoolToInt(z)

match_direction(q, direction) ==
    LET x == (x_p(q) /\ direction.x >= 0) \/ (~x_p(q) /\ direction.x <= 0)
        y == (y_p(q) /\ direction.y >= 0) \/ (~y_p(q) /\ direction.y <= 0)
        z == (z_p(q) /\ direction.z >= 0) \/ (~z_p(q) /\ direction.z <= 0)
    IN  x /\ y /\ z

remove_matching_quadrant_component(self, quadrant) ==
    Vec3(IF (x_p(quadrant) /\ self.x > 0) \/ (~x_p(quadrant) /\ self.x < 0) THEN 0 ELSE self.x,
         IF (y_p(quadrant) /\ self.y > 0) \/ (~y_p(quadrant) /\ self.y < 0) THEN 0 ELSE self.y,
         IF (z_p(quadrant) /\ self.z > 0) \/ (~z_p(quadrant) /\ self.z < 0) THEN 0 ELSE self.z)

(***************************************************************************)
(* geometry.rs : Sphere, Cube                                              *)
(***************************************************************************)
Sphere(center, radius) == [center |-> center, radius |-> radius]

Cube(origin, size) == [origin |-> origin, size |-> size]

sub_to_center(self, v) == Sphere(sub(self.center, v), self.radius)

move_by(self, shift) == Sphere(add(self.center, shift), self.radius)

\* is_inside_quadrant without the radius taken off the side of the octant
is_inside_quadrant_loose(self, size, quadrant) ==
    LET half_size == TruncDiv(size, 2)
        quarter_size == TruncDiv(half_size, 2)
        quarter_vec == Vec3(quarter_size, quarter_size, quarter_size)
        shift == sub(mul_scalar(Vec3(BoolToInt(x_p(quadrant)),
                                     BoolToInt(y_p(quadrant)),
                                     BoolToInt(z_p(quadrant))), half_size),
                     quarter_vec)
        shifted_center == sub(self.center, shift)
    IN  is_inside_centered_cube(shifted_center, half_size)

\* the callers pass the side of the cell (area.size); the body reads only
\* cell_area.size
is_inside_quadrant(self, size, quadrant) ==
    LET half_size == TruncDiv(size, 2)
        quarter_size == TruncDiv(half_size, 2)
        quarter_vec == Vec3(quarter_size, quarter_size, quarter_size)
        shift == sub(mul_scalar(Vec3(BoolToInt(x_p(quadrant)),
                                     BoolToInt(y_p(quadrant)),
                                     BoolToInt(z_p(quadrant))), half_size),
                     quarter_vec)
        shifted_center == sub(self.center, shift)
    IN  is_inside_centered_cube(shifted_center, half_size - self.radius)

(***************************************************************************)
(* player.rs : the controller shared by the player entities                *)
(***************************************************************************)
MASS == 100
RADIUS == 200
CONTROL_FORCE == 10000

\* Player::control for a direction of length 0 or 1 (one arrow key, or none):
\* dir * CONTROL_FORCE / |dir|, the division by 0.0 of the zero vector casts to 0
control(dir) ==
    div_float(mul_scalar(dir, CONTROL_FORCE),
              (IF dir.x < 0 THEN -dir.x ELSE dir.x)
              + (IF dir.y < 0 THEN -dir.y ELSE dir.y)
              + (IF dir.z < 0 THEN -dir.z ELSE dir.z))

(***************************************************************************)
(* entity.rs : Entity.  The field id is not in the program: it names the   *)
(* boxed value so that the ownership of one entity can be followed.        *)
(***************************************************************************)
Entity_new(id, bounding_sphere, entity) ==
    [id |-> id, bounding_sphere |-> bounding_sphere, speed |-> ZERO, mass |-> 0,
     entity |-> entity, external_forces |-> ZERO]

new_player(id, pos) ==
    [id |-> id, bounding_sphere |-> Sphere(pos, RADIUS), speed |-> ZERO, mass |-> MASS,
     entity |-> "Player", external_forces |-> ZERO]

\* CellPart: the quadrant field is read only when part = "Quadrant"
CellPart(part, quadrant) == [part |-> part, quadrant |-> quadrant]

\* the first octant, in the order 0..7, that is_inside_quadrant accepts; 8 if none
RECURSIVE first_quadrant_inside(_, _, _)
first_quadrant_inside(relative_sphere, area_size, i) ==
    IF i >= NB_QUADRANTS THEN NB_QUADRANTS
    ELSE IF is_inside_quadrant(relative_sphere, area_size, i) THEN i
    ELSE first_quadrant_inside(relative_sphere, area_size, i + 1)

get_containing_cell_part(self, area) ==
    LET half == TruncDiv(area.size, 2)
        half_size == Vec3(half, half, half)
        area_center == add(area.origin, half_size)
        area_size == area.size
        relative_sphere == sub_to_center(self.bounding_sphere, area_center)
        q == first_quadrant_inside(relative_sphere, area_size, 0)
    IN  IF ~is_inside_centered_cube(relative_sphere.center, area_size)
        THEN CellPart("CenterOutside", 0)
        ELSE IF ~is_inside_centered_cube(relative_sphere.center,
                                         area_size - relative_sphere.radius)
        THEN CellPart("PartlyOutside", 0)
        ELSE IF q < NB_QUADRANTS
        THEN CellPart("Quadrant", q)
        ELSE CellPart("MultiQuadrant", 0)

\* the octants the Vec<u8> returned holds; the three components of shift are
\* all i & (1 << 2), which is 4 or 0
get_collisioned_quadrants(self, area) ==
    LET half == TruncDiv(area.size, 2)
        half_size == Vec3(half, half, half)
        area_center == add(area.origin, half_size)
        area_size == area.size
        relative_sphere_center == sub(self.bounding_sphere.center, area_center)
        radius == self.bounding_sphere.radius
    IN  {i \in Quadrants :
            is_inside_centered_cube(
                sub(relative_sphere_center,
                    sub(mul_scalar(Vec3(IF i >= 4 THEN 4 ELSE 0,
                                        IF i >= 4 THEN 4 ELSE 0,
                                        IF i >= 4 THEN 4 ELSE 0), area_size),
                        half_size)),
                TruncDiv(area_size, 2) + radius)}

\* switch_space_tree with the shift applied twice
switch_space_tree_twice(self, direction, cell_size) ==
    [self EXCEPT !.bounding_sphere.center = sub(@, mul_scalar(direction, 2 * cell_size))]

switch_space_tree(self, direction, cell_size) ==
    [self EXCEPT !.bounding_sphere.center = sub(@, mul_scalar(direction, cell_size))]

\* run_movement with the velocity updated before the sphere is moved
run_movement_speed_first(self, control_forces) ==
    LET force_add == IF self.entity = "Player" THEN control_forces ELSE ZERO
        external_forces == add(self.external_forces, force_add)
        speed == IF self.mass # 0
                 THEN add(self.speed, div_float(external_forces, self.mass))
                 ELSE self.speed
    IN  [self EXCEPT
            !.bounding_sphere = move_by(@, speed),
            !.speed = speed,
            !.external_forces = ZERO]

\* control_forces is the field of the shared Player the entity points to
run_movement(self, control_forces) ==
    LET force_add == IF self.entity = "Player" THEN control_forces ELSE ZERO
        external_forces == add(self.external_forces, force_add)
    IN  [self EXCEPT
            !.bounding_sphere = move_by(@, self.speed),
            !.speed = IF self.mass # 0
                      THEN add(@, div_float(external_forces, self.mass))
                      ELSE @,
            !.external_forces = ZERO]

(***************************************************************************)
(* matter_tree.rs : MatterTree.  sub_trees is the function of the present  *)
(* children: q \in DOMAIN sub_trees iff sub_trees[q] is Some.              *)
(***************************************************************************)
MIN_SIZE_POW == 5
MIN_SIZE == 2 ^ MIN_SIZE_POW
MAX_SCALE == 64 - 1 - MIN_SIZE_POW - 1 - 50
MAX_SIZE == 2 ^ (MIN_SIZE_POW + MAX_SCALE)

\* [None; NB_QUADRANTS]
NONE_SPACE_CELL == <<>>

\* an array or Vec with every element computed: a function constructor is
\* evaluated anew at each application, the function f @@ <<>> is f tabulated
collect(f) == f @@ <<>>

\* sub_trees with sub_trees[q] = Some(t)
SetSubTree(sub_trees, q, t) == (q :> t) @@ sub_trees

\* sub_trees with the children in the set gone set to None
DropSubTrees(sub_trees, gone) ==
    collect([i \in (DOMAIN sub_trees) \ gone |-> sub_trees[i]])

Reverse(s) == [i \in 1 .. Len(s) |-> s[Len(s) + 1 - i]]

\* the indices of the children that are Some, in the order in which the
\* loops over sub_trees visit them
present(sub_trees) ==
    SelectSeq(<<0, 1, 2, 3, 4, 5, 6, 7>>, LAMBDA i : i \in DOMAIN sub_trees)

\* the concatenation of a sequence of sequences (what successive pushes and
\* extends build)
RECURSIVE flatten(_)
flatten(ss) == IF ss = <<>> THEN <<>> ELSE Head(ss) \o flatten(Tail(ss))

\* iter().sum() of a sequence of numbers
RECURSIVE sum(_)
sum(ns) == IF ns = <<>> THEN 0 ELSE Head(ns) + sum(Tail(ns))

new_tree(scale, area) ==
    [scale |-> scale, sub_trees |-> NONE_SPACE_CELL, entities |-> <<>>, area |-> area]

MatterTree_new ==
    new_tree(MAX_SCALE,
             Cube(Vec3(TruncDiv(-MAX_SIZE, 2), TruncDiv(-MAX_SIZE, 2), TruncDiv(-MAX_SIZE, 2)),
                  MAX_SIZE))

\* new_sub_tree with the child placed at the parent's origin whatever its octant
new_sub_tree_at_origin(self, quadrant) ==
    new_tree(self.scale - 1, Cube(self.area.origin, TruncDiv(self.area.size, 2)))

new_sub_tree(self, quadrant) ==
    LET origin == self.area.origin
        size == TruncDiv(self.area.size, 2)
    IN  new_tree(self.scale - 1,
                 Cube(Vec3(origin.x + BoolToInt(x_p(quadrant)) * size,
                           origin.y + BoolToInt(y_p(quadrant)) * size,
                           origin.z + BoolToInt(z_p(quadrant)) * size),
                      size))

center(self) ==
    LET half == TruncDiv(self.area.size, 2)
    IN  add(self.area.origin, Vec3(half, half, half))

\* the octant add_entities sends the entity to, NB_QUADRANTS if it stays
add_entities_quadrant(self, entity) ==
    LET relative_sphere == sub_to_center(entity.bounding_sphere, center(self))
        quadrant == from_pos(relative_sphere.center)
    IN  IF is_inside_quadrant(relative_sphere, self.area.size, quadrant)
        THEN quadrant
        ELSE NB_QUADRANTS

RECURSIVE MatterTree_add_entities(_, _)
RECURSIVE move_entities_to_quadrant(_, _, _)
RECURSIVE add_per_quadrant(_, _)

move_entities_to_quadrant(self, entities, quadrant) ==
    [self EXCEPT !.sub_trees =
        SetSubTree(@, quadrant,
                   MatterTree_add_entities(IF quadrant \in DOMAIN self.sub_trees
                                           THEN self.sub_trees[quadrant]
                                           ELSE new_sub_tree(self, quadrant),
                                           entities))]

\* the loop that calls move_entities_to_quadrant for every non-empty list of
\* per_quadrant (a function Quadrants -> Seq); the call for quadrant i changes
\* sub_trees[i] only
add_per_quadrant(self, per_quadrant) ==
    [self EXCEPT !.sub_trees =
        collect([i \in (DOMAIN @) \cup {q \in Quadrants : per_quadrant[q] # <<>>} |->
                    IF per_quadrant[i] # <<>>
                    THEN move_entities_to_quadrant(self, per_quadrant[i], i).sub_trees[i]
                    ELSE @[i]])]

\* the entities of a list of records that pair an entity with what was
\* computed for it
entities_of(tagged) == [k \in 1 .. Len(tagged) |-> tagged[k].entity]

\* the else branch of add_entities; tagged pairs every entity with the octant
\* it is sent to, NB_QUADRANTS if it is pushed to the node's own list
add_entities_split(self, tagged) ==
    add_per_quadrant(
        [self EXCEPT !.entities =
            @ \o entities_of(SelectSeq(tagged, LAMBDA t : t.quadrant = NB_QUADRANTS))],
        collect([q \in Quadrants |->
                    entities_of(SelectSeq(tagged, LAMBDA t : t.quadrant = q))]))

MatterTree_add_entities(self, entities) ==
    IF Len(self.entities) + Len(entities) <= 1 \/ self.scale = 0
    THEN [self EXCEPT !.entities = @ \o entities]
    ELSE add_entities_split(self,
                            collect([k \in 1 .. Len(entities) |->
                                        [entity |-> entities[k],
                                         quadrant |-> add_entities_quadrant(self, entities[k])]]))

MatterTree_is_empty(self) ==
    DOMAIN self.sub_trees = {} /\ self.entities = <<>>

(***************************************************************************)
(* matter_tree.rs : MatterTree::refresh                                    *)
(***************************************************************************)
\* the entities with their get_containing_cell_part(area)
with_cell_part(entities, area) ==
    collect([k \in 1 .. Len(entities) |->
                [entity |-> entities[k],
                 cell_part |-> get_containing_cell_part(entities[k], area)]])

\* the QuadrantMoveOperation the first loop pushes for an entity of the node's
\* own list: "ToUpperCell", "ToSubCell", or "None" when nothing is pushed
quitter(scale, cell_part) ==
    IF cell_part.part = "MultiQuadrant" THEN "None"
    ELSE IF cell_part.part = "PartlyOutside"
    THEN (IF scale < MAX_SCALE THEN "ToUpperCell" ELSE "None")
    ELSE IF cell_part.part = "CenterOutside" THEN "ToUpperCell"
    ELSE (IF scale > 0 THEN "ToSubCell" ELSE "None")

\* the arm of the match on an entity returned by a child's refresh: the list
\* the entity is pushed to ("entities", "outsiders", "insiders"), or "dropped"
\* when the `if` of its arm fails and the entity is pushed nowhere
route_sub_outsider(scale, cell_part) ==
    IF cell_part.part = "MultiQuadrant" THEN "entities"
    ELSE IF cell_part.part = "PartlyOutside"
    THEN (IF scale < MAX_SCALE THEN "outsiders" ELSE "dropped")
    ELSE IF cell_part.part = "CenterOutside" THEN "outsiders"
    ELSE (IF scale > 0 THEN "insiders" ELSE "dropped")

\* remaining with no quitter removed: the entity is copied to the list it
\* moves to and left in the node's list
remaining_unremoved(scale, own) == own

\* the node's list once the quitters are removed from it
remaining(scale, own) ==
    SelectSeq(own, LAMBDA t : quitter(scale, t.cell_part) = "None")

\* self.entities, outsiders and insiders as they are before the placement
\* of the insiders.  own is the node's list and sub_outsiders the entities
\* returned by the children, in the order of the children, both with their
\* cell part.  The quitters are removed in descending index order.
refresh_lists(scale, own, sub_outsiders) ==
    [entities |->
        entities_of(
            remaining(scale, own)
            \o SelectSeq(sub_outsiders,
                         LAMBDA t : route_sub_outsider(scale, t.cell_part) = "entities")),
     outsiders |->
        entities_of(
            SelectSeq(Reverse(own), LAMBDA t : quitter(scale, t.cell_part) = "ToUpperCell")
            \o SelectSeq(sub_outsiders,
                         LAMBDA t : route_sub_outsider(scale, t.cell_part) = "outsiders")),
     insiders |->
        collect([q \in Quadrants |->
            entities_of(
                SelectSeq(Reverse(own),
                          LAMBDA t : /\ quitter(scale, t.cell_part) = "ToSubCell"
                                     /\ t.cell_part.quadrant = q)
                \o SelectSeq(sub_outsiders,
                             LAMBDA t : /\ route_sub_outsider(scale, t.cell_part) = "insiders"
                                        /\ t.cell_part.quadrant = q))])]

\* "Clean empty quadrants"
clean_empty_quadrants(self) ==
    [self EXCEPT !.sub_trees =
        DropSubTrees(@, {i \in DOMAIN @ : MatterTree_is_empty(@[i])})]

\* the placement of the insiders and the cleaning; run is the node after "Run
\* quadrants" and lists the result of refresh_lists
refresh_place(run, lists) ==
    [tree |->
        clean_empty_quadrants(
            IF Len(lists.entities)
               + sum([k \in 1 .. NB_QUADRANTS |-> Len(lists.insiders[k - 1])]) = 1
            THEN [run EXCEPT !.entities =
                    lists.entities
                    \o flatten([k \in 1 .. NB_QUADRANTS |-> lists.insiders[k - 1]])]
            ELSE add_per_quadrant([run EXCEPT !.entities = lists.entities],
                                  lists.insiders)),
     outsiders |-> lists.outsiders]

\* refresh, given ran[i], the result of the refresh of child i (the guard
\* makes TLC compute the children first, as the program's stack never holds
\* the rest of the call while a child runs)
refresh_run(self, ran) ==
    CASE DOMAIN ran = DOMAIN self.sub_trees ->
    refresh_place(
        [self EXCEPT !.sub_trees = collect([i \in DOMAIN @ |-> ran[i].tree])],
        refresh_lists(self.scale,
                      with_cell_part(self.entities, self.area),
                      with_cell_part(
                          flatten([k \in 1 .. Len(present(self.sub_trees)) |->
                                      ran[present(self.sub_trees)[k]].outsiders]),
                          self.area)))

\* returns the refreshed node and the entities it evicts upward
RECURSIVE MatterTree_refresh(_)
MatterTree_refresh(self) ==
    refresh_run(self,
                collect([i \in DOMAIN self.sub_trees |->
                            MatterTree_refresh(self.sub_trees[i])]))

(***************************************************************************)
(* matter_tree.rs : run_actions, run_movements, nb_entities                *)
(***************************************************************************)
\* the rock dropped at rest
rock_at_rest(id, player) ==
    Entity_new(id, Sphere(sub(player.bounding_sphere.center, player.speed), 1), "Voxels")

\* the rock a player drops
rock(id, player) ==
    [Entity_new(id, Sphere(sub(player.bounding_sphere.center, player.speed), 1), "Voxels")
        EXCEPT !.speed = player.speed]

\* the entities of the node's own list, in order, that drop a rock
droppers(self, drop_block) ==
    SelectSeq(self.entities, LAMBDA e : e.entity = "Player" /\ drop_block)

RECURSIVE MatterTree_nb_entities(_)
MatterTree_nb_entities(self) ==
    Len(self.entities)
    + sum([k \in 1 .. Len(present(self.sub_trees)) |->
              MatterTree_nb_entities(self.sub_trees[present(self.sub_trees)[k]])])

\* returns the node and the next free id; the loop runs over the indices the
\* list had when the pass began, the rocks are pushed at its end
RECURSIVE MatterTree_run_actions(_, _, _)
RECURSIVE run_actions_sub_trees(_, _, _, _)
\* the loop over sub_trees, from the k-th present child on
run_actions_sub_trees(self, drop_block, next_id, k) ==
    IF k > Len(present(self.sub_trees)) THEN [tree |-> self, next_id |-> next_id]
    ELSE LET i == present(self.sub_trees)[k]
             r == MatterTree_run_actions(self.sub_trees[i], drop_block, next_id)
         IN  run_actions_sub_trees([self EXCEPT !.sub_trees[i] = r.tree],
                                   drop_block, r.next_id, k + 1)

MatterTree_run_actions(self, drop_block, next_id) ==
    LET players == droppers(self, drop_block)
        rocks == [k \in 1 .. Len(players) |-> rock(next_id + k - 1, players[k])]
    IN  run_actions_sub_trees([self EXCEPT !.entities = @ \o rocks],
                              drop_block, next_id + Len(players), 1)

RECURSIVE MatterTree_run_movements(_, _)
MatterTree_run_movements(self, control_forces) ==
    [self EXCEPT
        !.entities = collect([k \in 1 .. Len(@) |-> run_movement(@[k], control_forces)]),
        !.sub_trees = collect([i \in DOMAIN @ |->
                                  MatterTree_run_movements(@[i], control_forces)])]

(***************************************************************************)
(* matter_tree.rs : the collision pass.  Entity::apply_collision changes    *)
(* nothing (check_collision returns false); the operators return the calls *)
(* of apply_collision in the order they are made, each as the pair         *)
(* <<self.id, other.id>>.                                                  *)
(***************************************************************************)
\* the first loop with every other entity of the list as the remainder
local_collisions_ordered(entities) ==
    flatten([i \in 1 .. Len(entities) |->
                [j \in 1 .. Len(entities) - 1 |->
                    <<entities[i].id, entities[IF j < i THEN j ELSE j + 1].id>>]])

\* "Apply collisions to entities of this node": source is entities[i] and the
\* remainder the entities after it
local_collisions(entities) ==
    flatten([i \in 1 .. Len(entities) |->
                [j \in 1 .. Len(entities) - i |->
                    <<entities[i].id, entities[i + j].id>>]])

apply_external_collisions(self, outsiders) ==
    flatten([a \in 1 .. Len(self.entities) |->
                [b \in 1 .. Len(outsiders) |->
                    <<self.entities[a].id, outsiders[b].id>>]])

MatterTree_apply_neighbourhood_collisions(self) ==
    local_collisions(self.entities)
    \o flatten([k \in 1 .. Len(present(self.sub_trees)) |->
                  apply_external_collisions(
                      self.sub_trees[present(self.sub_trees)[k]],
                      SelectSeq(self.entities,
                                LAMBDA e : present(self.sub_trees)[k]
                                              \in get_collisioned_quadrants(e, self.area)))])

(***************************************************************************)
(* space_tree.rs : SpaceTree, Parent(SpaceTreeParent) or Matter(MatterTree)*)
(***************************************************************************)
Parent(scale, sub_trees) == [kind |-> "Parent", scale |-> scale, sub_trees |-> sub_trees]

Matter(matter) == [kind |-> "Matter", matter |-> matter]

SpaceTree_new == Matter(MatterTree_new)

\* build_sub_tree that builds a Matter leaf at every scale
build_sub_tree_leaf(scale) == Matter(MatterTree_new)

\* SpaceTreeParent::build_sub_tree, from the parent's scale
build_sub_tree(scale) ==
    IF scale = 0 THEN Matter(MatterTree_new) ELSE Parent(scale - 1, NONE_SPACE_CELL)

new_parent(self) ==
    Parent(IF self.kind = "Parent" THEN self.scale + 1 ELSE 0, NONE_SPACE_CELL)

SpaceTree_is_empty(self) ==
    IF self.kind = "Parent"
    THEN DOMAIN self.sub_trees = {}
    ELSE MatterTree_is_empty(self.matter)

\* EntityToDisplaceUp
get_displaced_outsider(entity) ==
    LET direction == outsider_direction_vec(entity.bounding_sphere.center, MAX_SIZE)
    IN  [path |-> <<>>, direction |-> direction,
         entity |-> switch_space_tree(entity, direction, MAX_SIZE)]

\* From<EntityToDisplaceUp> for EntityToDisplaceDown
into_down(up) == [path |-> up.path, entity |-> up.entity]

\* path.pop(): the last quadrant is taken off the path
pop(down) == [down EXCEPT !.path = SubSeq(@, 1, Len(@) - 1)]

\* returns the tree and ok, FALSE when path.pop().unwrap() meets an empty path
RECURSIVE relocate_entities(_, _)
RECURSIVE relocate_per_quadrant(_, _)

\* the tree once the children listed in moved have taken their entities;
\* moved[i] is what relocate_entities returned for child i
relocate_moved(self, moved) ==
    [tree |-> [self EXCEPT !.sub_trees =
                  collect([i \in (DOMAIN @) \cup (DOMAIN moved) |->
                              IF i \in DOMAIN moved THEN moved[i].tree ELSE @[i]])],
     ok |-> \A i \in DOMAIN moved : moved[i].ok]

\* the loop over relocate (a function Quadrants -> Seq) that ends the Parent
\* arm of relocate_entities and of refresh: the child of every non-empty list
\* is built if it is None and takes the list
relocate_per_quadrant(self, relocate) ==
    relocate_moved(self,
        collect([i \in {q \in Quadrants : relocate[q] # <<>>} |->
                    relocate_entities(IF i \in DOMAIN self.sub_trees
                                      THEN self.sub_trees[i]
                                      ELSE build_sub_tree(self.scale),
                                      relocate[i])]))

\* the entities with the last quadrant taken off their path
pops(entities) == [k \in 1 .. Len(entities) |-> pop(entities[k])]

relocate_entities(self, entities) ==
    IF self.kind = "Matter"
    THEN [tree |-> Matter(MatterTree_add_entities(self.matter, entities_of(entities))),
          ok |-> TRUE]
    ELSE IF \E k \in 1 .. Len(entities) : entities[k].path = <<>>
    THEN [tree |-> self, ok |-> FALSE]
    ELSE relocate_per_quadrant(self,
            collect([q \in Quadrants |->
                        pops(SelectSeq(entities, LAMBDA e : e.path[Len(e.path)] = q))]))

(***************************************************************************)
(* space_tree.rs : SpaceTree::refresh                                      *)
(***************************************************************************)
\* the Matter arm, from what the cell's refresh returned
refresh_matter(r) ==
    [tree |-> Matter(r.tree),
     outsiders |-> collect([k \in 1 .. Len(r.outsiders) |->
                              get_displaced_outsider(r.outsiders[k])]),
     ok |-> TRUE]

\* displace without the push of the mirror quadrant to the path
displace_unpathed(quadrant, displaced_outsider) ==
    IF move_to(quadrant, displaced_outsider.direction).some
    THEN [relocation |-> move_to(quadrant, displaced_outsider.direction).val,
          entity |-> into_down(displaced_outsider)]
    ELSE [relocation |-> NB_QUADRANTS,
          entity |-> [displaced_outsider EXCEPT
                !.direction = remove_matching_quadrant_component(
                                  @, mirror(quadrant, displaced_outsider.direction))]]

\* the body of the loop over the outsiders of child quadrant: the sibling the
\* outsider is relocated to (NB_QUADRANTS when move_to is None), and the
\* outsider as it is pushed to relocate or to outsiders
displace(quadrant, displaced_outsider) ==
    IF move_to(quadrant, displaced_outsider.direction).some
    THEN [relocation |-> move_to(quadrant, displaced_outsider.direction).val,
          entity |-> into_down(displaced_outsider)]
    ELSE [relocation |-> NB_QUADRANTS,
          entity |-> [displaced_outsider EXCEPT
                !.path = Append(@, mirror(quadrant, displaced_outsider.direction)),
                !.direction = remove_matching_quadrant_component(
                                  @, mirror(quadrant, displaced_outsider.direction))]]

\* what the Parent arm returns: r is the result of the relocation loop
refresh_result(r, outsiders) ==
    [tree |-> r.tree, outsiders |-> outsiders, ok |-> r.ok]

\* the second loop of the Parent arm; run is the node after the loop over the
\* children and displaced the result of displace for every outsider the
\* children returned, in order
refresh_relocate(run, displaced) ==
    refresh_result(
        relocate_per_quadrant(run,
            collect([q \in Quadrants |->
                        entities_of(SelectSeq(displaced, LAMBDA d : d.relocation = q))])),
        entities_of(SelectSeq(displaced, LAMBDA d : d.relocation = NB_QUADRANTS)))

\* the Parent arm, given ran[i], the result of the refresh of child i; a
\* panic in a child ends the call
refresh_parent(self, ran) ==
    IF \E i \in DOMAIN ran : ~ran[i].ok
    THEN [tree |-> self, outsiders |-> <<>>, ok |-> FALSE]
    ELSE refresh_relocate(
        [self EXCEPT !.sub_trees = collect([i \in DOMAIN @ |-> ran[i].tree])],
        flatten([k \in 1 .. Len(present(self.sub_trees)) |->
                    [j \in 1 .. Len(ran[present(self.sub_trees)[k]].outsiders) |->
                        displace(present(self.sub_trees)[k],
                                 ran[present(self.sub_trees)[k]].outsiders[j])]]))

\* returns the tree, the outsiders it passes upward and ok (FALSE on a panic)
RECURSIVE SpaceTree_refresh(_)
SpaceTree_refresh(self) ==
    IF self.kind = "Matter"
    THEN refresh_matter(MatterTree_refresh(self.matter))
    ELSE refresh_parent(self,
                        collect([i \in DOMAIN self.sub_trees |->
                                    SpaceTree_refresh(self.sub_trees[i])]))

\* the children cleaned, the empty ones left in place
drop_empty_children_kept(self, cleaned) ==
    [self EXCEPT !.sub_trees = cleaned]

\* the children cleaned, then the empty ones set to None
drop_empty_children(self, cleaned) ==
    [self EXCEPT !.sub_trees =
        DropSubTrees(cleaned, {i \in DOMAIN cleaned : SpaceTree_is_empty(cleaned[i])})]

RECURSIVE clean_empty_children(_)
clean_empty_children(self) ==
    IF self.kind = "Parent"
    THEN drop_empty_children(self,
                             collect([i \in DOMAIN self.sub_trees |->
                                         clean_empty_children(self.sub_trees[i])]))
    ELSE self

RECURSIVE SpaceTree_nb_entities(_)
SpaceTree_nb_entities(self) ==
    IF self.kind = "Matter"
    THEN MatterTree_nb_entities(self.matter)
    ELSE sum([k \in 1 .. Len(present(self.sub_trees)) |->
                SpaceTree_nb_entities(self.sub_trees[present(self.sub_trees)[k]])])

RECURSIVE SpaceTree_run_actions(_, _, _)
RECURSIVE space_run_actions_sub_trees(_, _, _, _)
\* the loop over sub_trees, from the k-th present child on
space_run_actions_sub_trees(self, drop_block, next_id, k) ==
    IF k > Len(present(self.sub_trees)) THEN [tree |-> self, next_id |-> next_id]
    ELSE LET i == present(self.sub_trees)[k]
             r == SpaceTree_run_actions(self.sub_trees[i], drop_block, next_id)
         IN  space_run_actions_sub_trees([self EXCEPT !.sub_trees[i] = r.tree],
                                         drop_block, r.next_id, k + 1)

SpaceTree_run_actions(self, drop_block, next_id) ==
    IF self.kind = "Matter"
    THEN LET r == MatterTree_run_actions(self.matter, drop_block, next_id)
         IN  [tree |-> Matter(r.tree), next_id |-> r.next_id]
    ELSE space_run_actions_sub_trees(self, drop_block, next_id, 1)

RECURSIVE SpaceTree_run_movements(_, _)
SpaceTree_run_movements(self, control_forces) ==
    IF self.kind = "Matter"
    THEN Matter(MatterTree_run_movements(self.matter, control_forces))
    ELSE [self EXCEPT !.sub_trees =
            collect([i \in DOMAIN @ |-> SpaceTree_run_movements(@[i], control_forces)])]

RECURSIVE SpaceTree_apply_neighbourhood_collisions(_)
SpaceTree_apply_neighbourhood_collisions(self) ==
    IF self.kind = "Matter"
    THEN MatterTree_apply_neighbourhood_collisions(self.matter)
    ELSE flatten([k \in 1 .. Len(present(self.sub_trees)) |->
                    SpaceTree_apply_neighbourhood_collisions(
                        self.sub_trees[present(self.sub_trees)[k]])])

(***************************************************************************)
(* space_tree.rs : GrowableSpaceTree                                       *)
(***************************************************************************)
\* one `if ... else if ...` block of pick_expansion_quadrant, on the
\* directions positive and negative, adding bit to i_direction
pick_axis(p, positive, negative, bit) ==
    IF p.expansion_dirs[positive] # 0
    THEN [expansion_dirs |-> [p.expansion_dirs EXCEPT ![positive] = 0],
          i_direction |-> p.i_direction + bit,
          dirs_consumed |-> p.dirs_consumed + 1]
    ELSE IF p.expansion_dirs[negative] # 0
    THEN [expansion_dirs |-> [p.expansion_dirs EXCEPT ![negative] = 0],
          i_direction |-> p.i_direction,
          dirs_consumed |-> p.dirs_consumed + 1]
    ELSE p

\* the three blocks of the function as written: Xp/Xn, Yp/Yn, and Yp/Yn again
pick_expansion_quadrant(expansion_dirs) ==
    LET p0 == [expansion_dirs |-> expansion_dirs, i_direction |-> 0, dirs_consumed |-> 0]
        p1 == pick_axis(p0, Xp, Xn, 4)
        p2 == pick_axis(p1, Yp, Yn, 2)
        p3 == pick_axis(p2, Yp, Yn, 2)
    IN  [expansion_dirs |-> p3.expansion_dirs,
         quadrant |-> invert(p3.i_direction),
         dirs_consumed |-> p3.dirs_consumed]

\* "Check in which directions the outsiders are": the number of outsiders
\* that have the direction dir among their components
count_direction(outsiders, dir) ==
    Len(SelectSeq(outsiders,
                  LAMBDA o : \E k \in 1 .. Len(direction_components(o.direction)) :
                                direction_components(o.direction)[k] = dir))

count_expansion_dirs(outsiders) ==
    collect([dir \in 0 .. (NB_DIRECTIONS - 1) |-> count_direction(outsiders, dir)])

\* the loop state after one iteration; g is the state before it, picked what
\* pick_expansion_quadrant returned, pathed the outsiders with their new path,
\* back those of them that are added back and r what relocate_entities returned
growth_result(g, picked, pathed, back, r) ==
    [tree |-> r.tree,
     outsiders |-> SelectSeq(pathed,
                             LAMBDA o : ~match_direction(invert(picked.quadrant), o.direction)),
     expansion_dirs |-> picked.expansion_dirs,
     nb_expansion_dirs |-> g.nb_expansion_dirs - picked.dirs_consumed,
     ok |-> g.ok /\ r.ok,
     steps |-> Append(g.steps,
                      [child_quadrant |-> picked.quadrant,
                       dirs_consumed |-> picked.dirs_consumed,
                       nb_before |-> g.nb_expansion_dirs,
                       nb_after |-> g.nb_expansion_dirs - picked.dirs_consumed,
                       inserted |-> {[id |-> back[k].entity.id,
                                      quadrant |-> back[k].path[Len(back[k].path)]] :
                                     k \in 1 .. Len(back)},
                       paths |-> {[id |-> back[k].entity.id, path |-> back[k].path] :
                                  k \in 1 .. Len(back)}])]

\* one iteration of the `while nb_expansion_dirs > 0` loop; g holds the tree,
\* the outsiders, expansion_dirs, nb_expansion_dirs, ok and the log of the steps
growth_step(g) ==
    LET picked == pick_expansion_quadrant(g.expansion_dirs)
        pathed == collect([k \in 1 .. Len(g.outsiders) |->
                      [g.outsiders[k] EXCEPT
                          !.path = Append(@, mirror(picked.quadrant, g.outsiders[k].direction))]])
        back == SelectSeq(pathed,
                          LAMBDA o : match_direction(invert(picked.quadrant), o.direction))
    IN  growth_result(g, picked, pathed, back,
            relocate_entities(
                [new_parent(g.tree) EXCEPT !.sub_trees = SetSubTree(@, picked.quadrant, g.tree)],
                Reverse(collect([k \in 1 .. Len(back) |-> into_down(back[k])]))))

\* the growth loop.  The program leaves it only with nb_expansion_dirs = 0 (or
\* on a panic).  An iteration that consumes no direction leaves expansion_dirs
\* and nb_expansion_dirs as they were, so every later iteration does the same
\* and the loop never ends: the model stops there and refresh reports "runaway"
RECURSIVE growth_loop(_)
growth_loop(g) ==
    IF \/ g.nb_expansion_dirs = 0
       \/ ~g.ok
       \/ (g.steps # <<>> /\ g.steps[Len(g.steps)].dirs_consumed = 0)
    THEN g
    ELSE growth_loop(growth_step(g))

\* "Cleanup useless parent levels"
RECURSIVE shrink_root(_)
shrink_root(self) ==
    IF self.kind = "Matter" THEN self
    ELSE IF Cardinality(DOMAIN self.sub_trees) > 1 THEN self
    ELSE IF DOMAIN self.sub_trees = {} THEN self
    ELSE shrink_root(self.sub_trees[CHOOSE i \in DOMAIN self.sub_trees : TRUE])

\* the end of refresh, from the result r of the root's refresh and the state g
\* in which the growth loop stopped
refresh_cleanup(r, g) ==
    IF ~g.ok
    THEN [tree |-> g.tree, end |-> "panic", outsiders |-> r.outsiders, steps |-> g.steps]
    ELSE IF g.nb_expansion_dirs # 0
    THEN [tree |-> g.tree, end |-> "runaway", outsiders |-> r.outsiders, steps |-> g.steps]
    ELSE [tree |-> shrink_root(clean_empty_children(g.tree)), end |-> "returned",
          outsiders |-> r.outsiders, steps |-> g.steps]

\* refresh after self.tree.refresh() returned r
refresh_grow(r) ==
    LET expansion_dirs == count_expansion_dirs(r.outsiders)
        nb_expansion_dirs ==
            Cardinality({dir \in DOMAIN expansion_dirs : expansion_dirs[dir] # 0})
    IN  IF ~r.ok \/ Len(r.outsiders) > nb_expansion_dirs
        THEN [tree |-> r.tree, end |-> "panic", outsiders |-> r.outsiders, steps |-> <<>>]
        ELSE refresh_cleanup(r,
                growth_loop([tree |-> r.tree, outsiders |-> r.outsiders,
                             expansion_dirs |-> expansion_dirs,
                             nb_expansion_dirs |-> nb_expansion_dirs,
                             ok |-> TRUE, steps |-> <<>>]))

\* returns the tree, how the call ended ("returned", "panic", "runaway"), the
\* outsiders the root's refresh returned and the growth steps taken
GrowableSpaceTree_refresh(self) == refresh_grow(SpaceTree_refresh(self))

(***************************************************************************)
(* space.rs, space_entity.rs : Space::insert_entity.  The universe is the  *)
(* SpaceTree of this file, a node with a scale and eight optional children.*)
(***************************************************************************)
SPACE_CELL_SIZE_POW == 20
SPACE_CELL_SIZE == 2 ^ SPACE_CELL_SIZE_POW

get_quadrant(self) == from_pos(self)

\* Sphere::div_scalar is not used here: shrink rewrites the centre only.  The
\* three components of shift all read quadrant & (1 << 2), which is 4 or 0
shrink(self, quadrant) ==
    LET shift == Vec3(-TruncDiv(SPACE_CELL_SIZE, 2)
                          + (IF x_p(quadrant) THEN 4 ELSE 0) * SPACE_CELL_SIZE,
                      -TruncDiv(SPACE_CELL_SIZE, 2)
                          + (IF x_p(quadrant) THEN 4 ELSE 0) * SPACE_CELL_SIZE,
                      -TruncDiv(SPACE_CELL_SIZE, 2)
                          + (IF x_p(quadrant) THEN 4 ELSE 0) * SPACE_CELL_SIZE)
    IN  [self EXCEPT !.bounding_sphere.center =
            add(Vec3(TruncDiv(@.x, 2), TruncDiv(@.y, 2), TruncDiv(@.z, 2)), shift)]

\* Space::new: the universe is SpaceTree::new(0)
Space_new == [scale |-> 0, sub_trees |-> NONE_SPACE_CELL]

\* the body of the `while` of insert_entity; g holds the universe, the entity,
\* scale_up and the centres the entity had when the loop condition was
\* evaluated
enlarge(g, quadrant) ==
    [g EXCEPT !.universe = [scale |-> g.universe.scale + 1,
                            sub_trees |-> SetSubTree(NONE_SPACE_CELL, quadrant, g.universe)],
              !.entity = shrink(g.entity, quadrant),
              !.scale_up = Append(@, quadrant),
              !.centers = Append(@, g.entity.bounding_sphere.center)]

\* The loop.  Its condition reads the centre and the radius only, and the
\* radius never changes: when the entity has a centre it had before, the loop
\* repeats the same steps for ever, and the model stops with end = "runaway"
RECURSIVE insert_loop(_)
insert_loop(g) ==
    IF is_inside_centered_cube(g.entity.bounding_sphere.center,
                               SPACE_CELL_SIZE - g.entity.bounding_sphere.radius)
    THEN [g EXCEPT !.end = "returned"]
    ELSE IF \E k \in 1 .. Len(g.centers) : g.centers[k] = g.entity.bounding_sphere.center
    THEN [g EXCEPT !.end = "runaway"]
    ELSE insert_loop(enlarge(g, invert(get_quadrant(g.entity.bounding_sphere.center))))

\* returns the universe, the entity as it is handed to add_entity, scale_up,
\* the centres the entity went through and how the call ended
insert_entity(universe, entity) ==
    insert_loop([universe |-> universe, entity |-> entity, scale_up |-> <<>>,
                 centers |-> <<>>, end |-> "running"])

(***************************************************************************)
(* The universe as a state machine.                                        *)
(*   tree      GrowableSpaceTree.tree                                      *)
(*   player    the shared Player controller (control_forces, drop_block)   *)
(*   next_id   the name the next created entity gets                       *)
(*   ticks     the number of run_movements passes so far                   *)
(*   status    "running", or how the program stopped: "panic" (a panic!    *)
(*             or a failed unwrap) or "runaway" (the growth loop of        *)
(*             refresh does not end)                                       *)
(*   last      the operation that led to this state                        *)
(*   before    the tree that operation started from                        *)
(*   refreshed for last = "refresh": the outsiders returned by the root's  *)
(*             refresh and the growth steps taken                          *)
(*   probe     the arguments and the results of the last call of a         *)
(*             geometry function made outside the tree                     *)
(***************************************************************************)
VARIABLES tree, player, next_id, ticks, status, last, before, refreshed, probe

vars == <<tree, player, next_id, ticks, status, last, before, refreshed, probe>>

NoRefresh == [outsiders |-> <<>>, steps |-> <<>>]

NoProbe == [kind |-> "none"]

\* the directions in which the entities of the model head out of their cell
Headings ==
    {Vec3(1, 0, 0), Vec3(-1, 0, 0), Vec3(0, 1, 0), Vec3(0, 0, 1), Vec3(1, 1, 1)}

\* the keys held when Player::control is called: none, Right
ControlDirs == {ZERO, Vec3(1, 0, 0)}

\* a voxel body as the callers build it: Entity::new, then the speed field set
voxels(pos, radius, speed) ==
    [Entity_new(0, Sphere(pos, radius), "Voxels") EXCEPT !.speed = speed]

\* The entities handed to add_entities:
\*  - the player of main.rs;
\*  - a body at rest at the origin, and one at rest wholly inside octant XpYpZp;
\*  - for each heading d, a body 10 units inside the face (edge, corner) of the
\*    matter root on the side d that moves 20 units per tick towards it;
\*  - a body wholly inside octant XpYpZp, 8 units from the +x face, that moves 7
\*    units per tick towards it;
\*  - a body that moves two and a half cell sides per tick.
EntityPool ==
    {new_player(0, Vec3(0, 0, 500)), voxels(ZERO, 1, ZERO), voxels(Vec3(100, 100, 100), 1, ZERO)}
    \cup {voxels(mul_scalar(d, TruncDiv(MAX_SIZE, 2) - 10), 1, mul_scalar(d, 20)) : d \in Headings}
    \cup {voxels(Vec3(TruncDiv(MAX_SIZE, 2) - 8, 100, 100), 1, Vec3(7, 0, 0))}
    \cup {voxels(ZERO, 1, Vec3(2 * MAX_SIZE + TruncDiv(MAX_SIZE, 2), 0, 0))}

\* the batches handed to one add_entities call
Batches == {<<e>> : e \in EntityPool} \cup {<<e1, e2>> : e1 \in EntityPool, e2 \in EntityPool}

\* the batch with the entities named next_id, next_id + 1, ...
named(batch, first_id) == [k \in 1 .. Len(batch) |-> [batch[k] EXCEPT !.id = first_id + k - 1]]

\* the entities of a matter tree / of the space tree, as a sequence
RECURSIVE MatterTree_all(_)
MatterTree_all(self) ==
    self.entities
    \o flatten([k \in 1 .. Len(present(self.sub_trees)) |->
                  MatterTree_all(self.sub_trees[present(self.sub_trees)[k]])])

RECURSIVE SpaceTree_all(_)
SpaceTree_all(self) ==
    IF self.kind = "Matter" THEN MatterTree_all(self.matter)
    ELSE flatten([k \in 1 .. Len(present(self.sub_trees)) |->
                    SpaceTree_all(self.sub_trees[present(self.sub_trees)[k]])])

\* the number of rocks one run_actions pass would spawn
nb_droppers(self) ==
    IF player.drop_block
    THEN Len(SelectSeq(SpaceTree_all(self), LAMBDA e : e.entity = "Player"))
    ELSE 0

Init ==
    /\ tree = SpaceTree_new
    /\ player = [control_forces |-> ZERO, drop_block |-> FALSE]
    /\ next_id = 1
    /\ ticks = 0
    /\ status = "running"
    /\ last = "new"
    /\ before = SpaceTree_new
    /\ refreshed = NoRefresh
    /\ probe = NoProbe

\* main.rs: matter.add_entities(...) on the root while it is a Matter leaf
AddEntities(batch) ==
    /\ status = "running"
    /\ tree.kind = "Matter"
    /\ SpaceTree_nb_entities(tree) + Len(batch) <= MaxEntities
    /\ tree' = Matter(MatterTree_add_entities(tree.matter, named(batch, next_id)))
    /\ next_id' = next_id + Len(batch)
    /\ last' = "add_entities"
    /\ before' = tree
    /\ refreshed' = NoRefresh
    /\ UNCHANGED <<probe, player, ticks, status>>

\* main.rs: the front-end writes the controller between two ticks
Control(dir, drop_block) ==
    /\ status = "running"
    /\ \E k \in 1 .. Len(SpaceTree_all(tree)) : SpaceTree_all(tree)[k].entity = "Player"
    /\ player' = [control_forces |-> control(dir), drop_block |-> drop_block]
    /\ player' # player
    /\ last' = "control"
    /\ before' = tree
    /\ refreshed' = NoRefresh
    /\ UNCHANGED <<probe, tree, next_id, ticks, status>>

\* the state the call leaves, r being what the model of run_actions returned
RanActions(r) ==
    /\ tree' = r.tree
    /\ next_id' = r.next_id

RunActions ==
    /\ status = "running"
    /\ SpaceTree_nb_entities(tree) + nb_droppers(tree) <= MaxEntities
    /\ RanActions(SpaceTree_run_actions(tree, player.drop_block, next_id))
    /\ last' = "run_actions"
    /\ before' = tree
    /\ refreshed' = NoRefresh
    /\ UNCHANGED <<probe, player, ticks, status>>

RunMovements ==
    /\ status = "running"
    /\ ticks < MaxTicks
    /\ tree' = SpaceTree_run_movements(tree, player.control_forces)
    /\ ticks' = ticks + 1
    /\ last' = "run_movements"
    /\ before' = tree
    /\ refreshed' = NoRefresh
    /\ UNCHANGED <<probe, player, next_id, status>>

\* the state the call leaves, r being what the model of refresh returned
Refreshed(r) ==
    /\ tree' = r.tree
    /\ status' = IF r.end = "returned" THEN "running" ELSE r.end
    /\ refreshed' = [outsiders |-> r.outsiders, steps |-> r.steps]

Refresh ==
    /\ status = "running"
    /\ Refreshed(GrowableSpaceTree_refresh(tree))
    /\ last' = "refresh"
    /\ before' = tree
    /\ UNCHANGED <<probe, player, next_id, ticks>>

Next ==
    \/ \E batch \in Batches : AddEntities(batch)
    \/ \E dir \in ControlDirs, drop_block \in BOOLEAN : Control(dir, drop_block)
    \/ RunActions
    \/ RunMovements
    \/ Refresh

Spec == Init /\ [][Next]_vars

(***************************************************************************)
(* A second population: up to three bodies that head for the faces of      *)
(* their matter roots (two leave the root through its +x+y edge in the     *)
(* first tick, side by side, and then touch the +z face of the leaf they   *)
(* entered; another stays and touches the +x face of the first root), and  *)
(* a player, of radius 200, that stands 150 units off the x and y          *)
(* mid-planes of the root.                                                 *)
(***************************************************************************)
MaxEdgeEntities == 3

EdgePool ==
    {voxels(Vec3(TruncDiv(MAX_SIZE, 2) - 10, TruncDiv(MAX_SIZE, 2) - 10,
                 TruncDiv(MAX_SIZE, 2) - 15), 1, Vec3(20, 20, 7)),
     voxels(Vec3(TruncDiv(MAX_SIZE, 2) - 15, 100, 100), 1, Vec3(7, 0, 0)),
     new_player(0, Vec3(150, 150, 500))}

EdgeBatches == {<<e>> : e \in EdgePool} \cup {<<e1, e2>> : e1 \in EdgePool, e2 \in EdgePool}

\* main.rs: matter.add_entities(...) on the root while it is a Matter leaf
AddEdgeEntities(batch) ==
    /\ status = "running"
    /\ tree.kind = "Matter"
    /\ SpaceTree_nb_entities(tree) + Len(batch) <= MaxEdgeEntities
    /\ tree' = Matter(MatterTree_add_entities(tree.matter, named(batch, next_id)))
    /\ next_id' = next_id + Len(batch)
    /\ last' = "add_entities"
    /\ before' = tree
    /\ refreshed' = NoRefresh
    /\ UNCHANGED <<probe, player, ticks, status>>

NextEdge ==
    \/ \E batch \in EdgeBatches : AddEdgeEntities(batch)
    \/ RunMovements
    \/ Refresh

SpecEdge == Init /\ [][NextEdge]_vars

(***************************************************************************)
(* The geometry functions called on their own: a call is drawn from the    *)
(* inputs below, then made, and probe keeps its arguments and its results. *)
(***************************************************************************)
MaxSidePow == 3

MaxRadius == 3

\* the sides of the cubes: the powers of two from 4 on
Sides == {2 ^ k : k \in 2 .. MaxSidePow}

\* the coordinates tried for a cube of side size: those of the cube and one
\* more on each side
Coordinates(size) == (-TruncDiv(size, 2) - 1) .. TruncDiv(size, 2)

\* the direction vectors, {-1,0,+1}^3
Dirs == {Vec3(x, y, z) : x \in -1 .. 1, y \in -1 .. 1, z \in -1 .. 1}

\* the cube of side size centred on the origin
centered(size) ==
    Cube(Vec3(-TruncDiv(size, 2), -TruncDiv(size, 2), -TruncDiv(size, 2)), size)

SphereCalls ==
    {[kind |-> "sphere", called |-> FALSE, size |-> size,
      sphere |-> Sphere(Vec3(x, y, z), r)] :
        size \in Sides, x \in Coordinates(2 ^ MaxSidePow),
        y \in Coordinates(2 ^ MaxSidePow), z \in Coordinates(2 ^ MaxSidePow),
        r \in 0 .. MaxRadius}

QuadrantCalls ==
    {[kind |-> "quadrant", called |-> FALSE, quadrant |-> q, dir |-> d] :
        q \in Quadrants, d \in Dirs}

\* the coordinates tried around the faces of a cube of side size: the last one
\* inside and the first one outside on each side, and the middle
Faces(size) ==
    {-TruncDiv(size, 2) - 1, -TruncDiv(size, 2), 0, TruncDiv(size, 2) - 1, TruncDiv(size, 2)}

\* a position around the faces of a cube of side size, and the radius of the
\* body that is moved to this position in a matter root
DirectionCalls ==
    UNION {{[kind |-> "direction", called |-> FALSE, size |-> size, pos |-> Vec3(x, y, z),
             radius |-> r] :
               x \in Faces(size), y \in Faces(size), z \in Faces(size), r \in {1, RADIUS}} :
           size \in Sides \cup {MAX_SIZE}}

InitGeometry ==
    /\ tree = SpaceTree_new
    /\ player = [control_forces |-> ZERO, drop_block |-> FALSE]
    /\ next_id = 1
    /\ ticks = 0
    /\ status = "running"
    /\ last = "new"
    /\ before = SpaceTree_new
    /\ refreshed = NoRefresh
    /\ probe \in {c \in SphereCalls :
                    /\ c.sphere.center.x \in Coordinates(c.size)
                    /\ c.sphere.center.y \in Coordinates(c.size)
                    /\ c.sphere.center.z \in Coordinates(c.size)}
                 \cup QuadrantCalls \cup DirectionCalls

\* the child of octant quadrant of a cell whose area is the centred cube of
\* side size, holding a body with the sphere given
child_holding(sphere, size, quadrant) ==
    MatterTree_add_entities(new_sub_tree(new_tree(1, centered(size)), quadrant),
                            <<voxels(sphere.center, sphere.radius, ZERO)>>)

\* is_inside_centered_cube, is_inside_quadrant for each octant, from_pos and
\* get_containing_cell_part, called on a sphere and a cube centred on the origin;
\* get_collisioned_quadrants called on the same sphere and cube;
\* get_containing_cell_part called against the area of each child of the cell,
\* and refresh called on each child holding the body
CallSphere ==
    /\ probe.kind = "sphere"
    /\ ~probe.called
    /\ probe' =
         [probe EXCEPT
            !.called = TRUE] @@
         [inside |-> is_inside_centered_cube(probe.sphere.center, probe.size),
          accepted |-> {q \in Quadrants : is_inside_quadrant(probe.sphere, probe.size, q)},
          from_pos |-> from_pos(probe.sphere.center),
          cell_part |-> get_containing_cell_part([bounding_sphere |-> probe.sphere],
                                                 centered(probe.size)),
          collisioned |-> get_collisioned_quadrants([bounding_sphere |-> probe.sphere],
                                                    centered(probe.size)),
          child_parts |->
              collect([q \in Quadrants |->
                          get_containing_cell_part(
                              [bounding_sphere |-> probe.sphere],
                              child_holding(probe.sphere, probe.size, q).area).part]),
          evicted_by |->
              {q \in Quadrants :
                  MatterTree_refresh(child_holding(probe.sphere, probe.size, q)).outsiders
                      # <<>>}]
    /\ UNCHANGED <<tree, player, next_id, ticks, status, last, before, refreshed>>

\* mirror, invert and move_to, called on an octant and a direction
CallQuadrant ==
    /\ probe.kind = "quadrant"
    /\ ~probe.called
    /\ probe' =
         [probe EXCEPT
            !.called = TRUE] @@
         [mirror |-> mirror(probe.quadrant, probe.dir),
          mirror_twice |-> mirror(mirror(probe.quadrant, probe.dir), probe.dir),
          invert |-> invert(probe.quadrant),
          invert_twice |-> invert(invert(probe.quadrant)),
          move_to |-> move_to(probe.quadrant, probe.dir),
          move_to_zero |-> move_to(probe.quadrant, ZERO)]
    /\ UNCHANGED <<tree, player, next_id, ticks, status, last, before, refreshed>>

\* outsider_direction_vec and is_inside_centered_cube, called on a position
\* and a side; from_outsider_pos called on the position and half the side, and
\* equivalent_vec on its result; and the Matter arm of SpaceTree::refresh,
\* called on a root leaf
\* whose only body, stored at the origin, run_movements has moved to the
\* position
CallDirection ==
    /\ probe.kind = "direction"
    /\ ~probe.called
    /\ probe' =
         [probe EXCEPT
            !.called = TRUE] @@
         [direction |-> outsider_direction_vec(probe.pos, probe.size),
          inside |-> is_inside_centered_cube(probe.pos, probe.size),
          fine |-> from_outsider_pos(probe.pos, TruncDiv(probe.size, 2)),
          equivalent |->
              equivalent_vec(from_outsider_pos(probe.pos, TruncDiv(probe.size, 2))),
          outsiders |->
              SpaceTree_refresh(
                  SpaceTree_run_movements(
                      Matter(MatterTree_add_entities(
                                 MatterTree_new,
                                 <<voxels(ZERO, probe.radius, probe.pos)>>)),
                      ZERO)).outsiders]
    /\ UNCHANGED <<tree, player, next_id, ticks, status, last, before, refreshed>>

NextGeometry ==
    \/ CallSphere
    \/ CallQuadrant
    \/ CallDirection

SpecGeometry == InitGeometry /\ [][NextGeometry]_vars

(***************************************************************************)
(* The entity functions called on their own, in the same way.              *)
(***************************************************************************)
MaxSpeed == 1

MaxForce == 2

\* the velocities and the forces tried, with components of both signs, the
\* forces not multiples of the mass
Speeds == {Vec3(i, 2 * i, 0) : i \in -MaxSpeed .. MaxSpeed}

Forces == {Vec3(150 * i, 0, -70 * i) : i \in -MaxForce .. MaxForce}

\* an entity with every field given; control_forces is the field of the
\* shared Player
MovementCalls ==
    {[kind |-> "movement", called |-> FALSE,
      control_forces |-> control(dir),
      entity |-> [id |-> 0, bounding_sphere |-> Sphere(Vec3(10, -20, 30), RADIUS),
                  speed |-> speed, mass |-> mass, entity |-> data,
                  external_forces |-> forces]] :
        dir \in ControlDirs, speed \in Speeds, mass \in {0, MASS},
        data \in {"Player", "Voxels"}, forces \in Forces}

\* The bodies of the universes the collision pass is called on: one that
\* touches the lower corner of the matter root (it stays in the root's list
\* and get_collisioned_quadrants gives it octants), one inside octant XnYnZn
\* and one inside octant XnYnZp near that corner, one at the origin, and the
\* player.
CollisionPool ==
    {voxels(Vec3(-TruncDiv(MAX_SIZE, 2), -TruncDiv(MAX_SIZE, 2), -TruncDiv(MAX_SIZE, 2)),
            1, ZERO),
     voxels(Vec3(10 - TruncDiv(MAX_SIZE, 2), 10 - TruncDiv(MAX_SIZE, 2),
                 10 - TruncDiv(MAX_SIZE, 2)), 1, ZERO),
     voxels(Vec3(10 - TruncDiv(MAX_SIZE, 2), 10 - TruncDiv(MAX_SIZE, 2), 100), 1, ZERO),
     voxels(ZERO, 1, ZERO),
     new_player(0, Vec3(0, 0, 500))}

MaxCollisionEntities == 3

\* the sequences of at most n bodies of the pool
RECURSIVE CollisionBatches(_)
CollisionBatches(n) ==
    IF n = 0 THEN {<<>>}
    ELSE CollisionBatches(n - 1)
         \cup {Append(b, e) : b \in {c \in CollisionBatches(n - 1) : Len(c) = n - 1},
                              e \in CollisionPool}

\* a universe: a matter root that add_entities filled with a batch, and, when
\* grown, the parent the growth of the root wraps it in (as octant XnYnZn) with
\* a body relocated to the leaf of octant XpYpZp
collision_universe(batch, grown) ==
    IF grown
    THEN relocate_entities(
             [new_parent(SpaceTree_new) EXCEPT !.sub_trees =
                 SetSubTree(@, 0, Matter(MatterTree_add_entities(MatterTree_new,
                                                                 named(batch, 2))))],
             <<[path |-> <<7>>, entity |-> [voxels(ZERO, 1, ZERO) EXCEPT !.id = 1]]>>).tree
    ELSE Matter(MatterTree_add_entities(MatterTree_new, named(batch, 2)))

CollisionCalls ==
    {[kind |-> "collisions", called |-> FALSE, universe |-> collision_universe(batch, grown)] :
        batch \in CollisionBatches(MaxCollisionEntities) \ {<<>>}, grown \in BOOLEAN}

MaxCells == 3

\* the entities inserted: the centres on a grid of half cells around the
\* universe, the radii from a point to more than the cell
InsertCalls ==
    {[kind |-> "insert", called |-> FALSE,
      entity |-> [bounding_sphere |-> Sphere(Vec3(x * TruncDiv(SPACE_CELL_SIZE, 2),
                                                   y * TruncDiv(SPACE_CELL_SIZE, 2),
                                                   z * TruncDiv(SPACE_CELL_SIZE, 2)), r),
                  mass |-> 0, entity |-> "Creature"]] :
        x \in -MaxCells .. MaxCells, y \in -MaxCells .. MaxCells, z \in -MaxCells .. MaxCells,
        r \in {0, 1, RADIUS, TruncDiv(SPACE_CELL_SIZE, 2), SPACE_CELL_SIZE}}

InitCalls ==
    /\ tree = SpaceTree_new
    /\ player = [control_forces |-> ZERO, drop_block |-> FALSE]
    /\ next_id = 1
    /\ ticks = 0
    /\ status = "running"
    /\ last = "new"
    /\ before = SpaceTree_new
    /\ refreshed = NoRefresh
    /\ probe \in MovementCalls \cup CollisionCalls \cup InsertCalls

\* Entity::run_movement
CallRunMovement ==
    /\ probe.kind = "movement"
    /\ ~probe.called
    /\ probe' = [probe EXCEPT !.called = TRUE]
                 @@ [moved |-> run_movement(probe.entity, probe.control_forces)]
    /\ UNCHANGED <<tree, player, next_id, ticks, status, last, before, refreshed>>

\* SpaceTree::apply_neighbourhood_collisions on the universe
CallCollisions ==
    /\ probe.kind = "collisions"
    /\ ~probe.called
    /\ probe' = [probe EXCEPT !.called = TRUE]
                 @@ [calls |-> SpaceTree_apply_neighbourhood_collisions(probe.universe)]
    /\ UNCHANGED <<tree, player, next_id, ticks, status, last, before, refreshed>>

\* Space::insert_entity on a new Space
CallInsertEntity ==
    /\ probe.kind = "insert"
    /\ ~probe.called
    /\ probe' = [probe EXCEPT !.called = TRUE]
                 @@ [inserted |-> insert_entity(Space_new, probe.entity)]
    /\ UNCHANGED <<tree, player, next_id, ticks, status, last, before, refreshed>>

NextCalls ==
    \/ CallRunMovement
    \/ CallCollisions
    \/ CallInsertEntity

SpecCalls == InitCalls /\ [][NextCalls]_vars

(***************************************************************************)
(* What the claims read off a state.                                       *)
(***************************************************************************)
\* the nodes of a matter tree, the node itself first
RECURSIVE MatterTree_nodes(_)
MatterTree_nodes(self) ==
    <<self>>
    \o flatten([k \in 1 .. Len(present(self.sub_trees)) |->
                  MatterTree_nodes(self.sub_trees[present(self.sub_trees)[k]])])

\* the matter nodes of all the matter trees of a space tree
RECURSIVE SpaceTree_matter_nodes(_)
SpaceTree_matter_nodes(self) ==
    IF self.kind = "Matter" THEN MatterTree_nodes(self.matter)
    ELSE flatten([k \in 1 .. Len(present(self.sub_trees)) |->
                    SpaceTree_matter_nodes(self.sub_trees[present(self.sub_trees)[k]])])

\* the names of the entities of a list
ids(entities) == {entities[k].id : k \in 1 .. Len(entities)}

\* the entities of a list, as a set
members(entities) == {entities[k] : k \in 1 .. Len(entities)}

\* the cell parts of the entities a space tree stores, each against the area
\* of the node that stores it
stored_cell_parts(self) ==
    UNION {{[scale |-> n.scale,
             children |-> DOMAIN n.sub_trees,
             id |-> e.id,
             part |-> get_containing_cell_part(e, n.area).part] : e \in members(n.entities)} :
           n \in members(SpaceTree_matter_nodes(self))}

\* refresh has just returned
Refreshed_returned == last = "refresh" /\ status = "running"

(***************************************************************************)
(* Claims C1 - C10.                                                        *)
(***************************************************************************)
\* C1: index refresh conserves entities: the number of entities stored in the
\* tree right after GrowableSpaceTree::refresh equals the number right before
\* it, whatever the cell parts of the entities are.
C1_RefreshConservesEntities ==
    Refreshed_returned => SpaceTree_nb_entities(tree) = SpaceTree_nb_entities(before)

\* C2: unique ownership: in every state reached by add_entities, run_actions,
\* run_movements and refresh, no entity is in the lists of two matter nodes or
\* twice in one list.
C2_UniqueOwnership ==
    Cardinality(ids(SpaceTree_all(tree))) = Len(SpaceTree_all(tree))

\* C2 witness: a refresh has grown the root and relocated an entity to a new
\* matter leaf while another entity stayed in the former root.
C2_Relocated ==
    /\ Refreshed_returned
    /\ refreshed.steps # <<>>
    /\ tree.kind = "Parent"
    /\ Len(SpaceTree_all(tree)) = 2

\* C3: containment after refresh: after every refresh no stored entity is
\* CenterOutside against the area of its node, and an entity that is
\* PartlyOutside against the area of its node is stored at a matter root.
C3_ContainmentAfterRefresh ==
    Refreshed_returned =>
        \A c \in stored_cell_parts(tree) :
            /\ c.part # "CenterOutside"
            /\ c.part = "PartlyOutside" => c.scale = MAX_SCALE

\* C4: minimal depth after refresh: after every refresh no matter node with
\* scale > 0 and at least one child holds in its own list an entity that is
\* Quadrant(q) against its area.
C4_MinimalDepthAfterRefresh ==
    Refreshed_returned =>
        \A c \in stored_cell_parts(tree) :
            (c.scale > 0 /\ c.children # {}) => c.part # "Quadrant"

\* C5: root growth terminates: for every set of outsiders the root's refresh
\* returns, the growth loop ends, every growth step strictly decreases the
\* number of pending expansion directions, and no outsider is left unplaced.
C5_RootGrowthTerminates ==
    last = "refresh" =>
        /\ status # "runaway"
        /\ \A k \in 1 .. Len(refreshed.steps) :
              refreshed.steps[k].nb_after < refreshed.steps[k].nb_before
        /\ status = "running" =>
              \A o \in members(refreshed.outsiders) :
                  \E k \in 1 .. Len(refreshed.steps) :
                      \E i \in refreshed.steps[k].inserted : i.id = o.entity.id

\* C6: growth placement: when a single entity leaves the root with direction
\* d, refresh takes exactly one growth step, the former root becomes the child
\* whose octant is opposite to d on every non-zero axis of d, and the entity is
\* inserted in the octant reached from that octant by moving along d.
C6_GrowthPlacement ==
    (last = "refresh" /\ Len(refreshed.outsiders) = 1) =>
        /\ status = "running"
        /\ Len(refreshed.steps) = 1
        /\ LET d == refreshed.outsiders[1].direction
               q == refreshed.steps[1].child_quadrant
           IN  /\ d.x > 0 => ~x_p(q)
               /\ d.x < 0 => x_p(q)
               /\ d.y > 0 => ~y_p(q)
               /\ d.y < 0 => y_p(q)
               /\ d.z > 0 => ~z_p(q)
               /\ d.z < 0 => z_p(q)
               /\ move_to(q, d).some
               /\ refreshed.steps[1].inserted
                    = {[id |-> refreshed.outsiders[1].entity.id,
                        quadrant |-> move_to(q, d).val]}

\* C7: simultaneous outsiders are all handled: for any number k >= 1 of
\* entities that leave the root cell in the same tick, several of them through
\* the same face included, refresh does not panic, and when it returns all k
\* entities are stored in the tree.
C7_SimultaneousOutsiders ==
    (last = "refresh" /\ Len(refreshed.outsiders) >= 1) =>
        /\ status # "panic"
        /\ status = "running" =>
              \A o \in members(refreshed.outsiders) :
                  o.entity.id \in ids(SpaceTree_all(tree))

\* C8: the matter root absorbs PartlyOutside: an entity that is PartlyOutside
\* against the area of its matter root is still stored in that matter tree
\* after refresh (with the centre it had), whether it was in the root's own
\* list or is returned to the root by a child; below the root no node keeps
\* a PartlyOutside entity.
C8_RootAbsorbsPartlyOutside ==
    (Refreshed_returned /\ before.kind = "Matter") =>
        /\ \A e \in members(MatterTree_all(before.matter)) :
              get_containing_cell_part(e, before.matter.area).part = "PartlyOutside"
                  => e \in members(SpaceTree_all(tree))
        /\ \A c \in stored_cell_parts(tree) :
              c.scale < MAX_SCALE => c.part # "PartlyOutside"

\* C9: ascent on overflow: an entity of a matter root whose centre after
\* integration lies beyond the +x face by less than MAX_SIZE (y and z inside
\* the cell) is, after the tick's refresh, stored in the matter leaf adjacent
\* on +x, with its old centre minus (MAX_SIZE, 0, 0).
C9_AscentOnOverflow ==
    (last = "refresh" /\ before.kind = "Matter") =>
        \A e \in members(MatterTree_all(before.matter)) :
            (/\ e.bounding_sphere.center.x >= TruncDiv(MAX_SIZE, 2)
             /\ e.bounding_sphere.center.x < TruncDiv(MAX_SIZE, 2) + MAX_SIZE
             /\ outsider_direction_vec(e.bounding_sphere.center, MAX_SIZE) = Vec3(1, 0, 0))
            => /\ status = "running"
               /\ switch_space_tree(e, Vec3(1, 0, 0), MAX_SIZE) \in members(SpaceTree_all(tree))
               /\ \E k \in 1 .. Len(refreshed.steps) :
                     [id |-> e.id,
                      quadrant |-> move_to(refreshed.steps[1].child_quadrant,
                                           Vec3(1, 0, 0)).val]
                         \in refreshed.steps[k].inserted

\* C10: coordinate bound: after every matter-tree boundary crossing done by
\* refresh, every axis of the centre of the crossing entity satisfies
\* |c| < MAX_SIZE.  The entities that crossed are those refresh gave a new
\* centre: the outsiders returned to the root, and the stored entities that
\* are not as they were before the call.
C10_CoordinateBound ==
    last = "refresh" =>
        \A e \in {o.entity : o \in members(refreshed.outsiders)}
                 \cup (members(SpaceTree_all(tree)) \ members(SpaceTree_all(before))) :
            /\ e.bounding_sphere.center.x < MAX_SIZE
            /\ e.bounding_sphere.center.x > -MAX_SIZE
            /\ e.bounding_sphere.center.y < MAX_SIZE
            /\ e.bounding_sphere.center.y > -MAX_SIZE
            /\ e.bounding_sphere.center.z < MAX_SIZE
            /\ e.bounding_sphere.center.z > -MAX_SIZE

(***************************************************************************)
(* Claims C11 - C20.                                                       *)
(***************************************************************************)
\* the nodes of a space tree, the node itself first
RECURSIVE SpaceTree_nodes(_)
SpaceTree_nodes(self) ==
    <<self>>
    \o (IF self.kind = "Matter" THEN <<>>
        ELSE flatten([k \in 1 .. Len(present(self.sub_trees)) |->
                        SpaceTree_nodes(self.sub_trees[present(self.sub_trees)[k]])]))

\* the matter nodes below the root of a matter tree
MatterTree_descendants(self) ==
    {MatterTree_nodes(self)[k] : k \in 2 .. Len(MatterTree_nodes(self))}

\* C11: no empty nodes: after every refresh, no node other than the root is
\* present with zero entities and zero children, in the matter trees and in
\* the space tree, and the root is not a Parent without children.
C11_NoEmptyNodes ==
    Refreshed_returned =>
        /\ ~(tree.kind = "Parent" /\ DOMAIN tree.sub_trees = {})
        /\ \A k \in 2 .. Len(SpaceTree_nodes(tree)) :
              ~SpaceTree_is_empty(SpaceTree_nodes(tree)[k])
        /\ \A n \in members(SpaceTree_nodes(tree)) :
              n.kind = "Matter" =>
                  \A m \in MatterTree_descendants(n.matter) : ~MatterTree_is_empty(m)

\* C12: root tightness: after every refresh the space-tree root is a Matter
\* leaf or a Parent with at least two present children.
C12_RootTightness ==
    Refreshed_returned =>
        (tree.kind = "Matter" \/ Cardinality(DOMAIN tree.sub_trees) >= 2)

\* SpaceTree::nb_nodes: the number of Matter leaves
RECURSIVE SpaceTree_nb_nodes(_)
SpaceTree_nb_nodes(self) ==
    IF self.kind = "Matter" THEN 1
    ELSE sum([k \in 1 .. Len(present(self.sub_trees)) |->
                SpaceTree_nb_nodes(self.sub_trees[present(self.sub_trees)[k]])])

\* MatterTree::nb_nodes: the sum over the present children, the node itself
\* not counted
RECURSIVE MatterTree_nb_nodes(_)
MatterTree_nb_nodes(self) ==
    sum([k \in 1 .. Len(present(self.sub_trees)) |->
            MatterTree_nb_nodes(self.sub_trees[present(self.sub_trees)[k]])])

\* SpaceTree::nb_matter_nodes: the Parent arm sums nb_nodes of the children
SpaceTree_nb_matter_nodes(self) ==
    IF self.kind = "Matter" THEN MatterTree_nb_nodes(self.matter)
    ELSE sum([k \in 1 .. Len(present(self.sub_trees)) |->
                SpaceTree_nb_nodes(self.sub_trees[present(self.sub_trees)[k]])])

\* C13: return home: whenever, at the end of a refresh, one matter leaf holds
\* the whole population, the space tree is a single Matter leaf and
\* nb_nodes() = 1.
C13_ReturnHome ==
    (/\ Refreshed_returned
     /\ \E n \in members(SpaceTree_nodes(tree)) :
           /\ n.kind = "Matter"
           /\ MatterTree_nb_entities(n.matter) = SpaceTree_nb_entities(tree))
    => (tree.kind = "Matter" /\ SpaceTree_nb_nodes(tree) = 1)

\* C13 witness: an entity has crossed into a neighbouring matter leaf (the
\* root grew in this refresh) and the tree is back to the one leaf that holds
\* the population.
C13_Crossed ==
    /\ Refreshed_returned
    /\ refreshed.steps # <<>>
    /\ tree.kind = "Matter"
    /\ SpaceTree_nb_entities(tree) >= 1
    /\ SpaceTree_nb_entities(tree) = SpaceTree_nb_entities(before)

\* C14: demotion on motion: after a refresh, an entity that is Quadrant(q)
\* against a matter node with scale > 0 is not in that node's own list, and if
\* it is stored below that node it is stored in the subtree of child q.
C14_DemotionOnMotion ==
    Refreshed_returned =>
        \A n \in members(SpaceTree_matter_nodes(tree)) :
            n.scale > 0 =>
                /\ \A e \in members(n.entities) :
                      get_containing_cell_part(e, n.area).part # "Quadrant"
                /\ \A i \in DOMAIN n.sub_trees :
                      \A e \in members(MatterTree_all(n.sub_trees[i])) :
                          get_containing_cell_part(e, n.area).part = "Quadrant"
                              => get_containing_cell_part(e, n.area).quadrant = i

\* C15: half-open partition: for a cube whose side is a power of two >= 4, a
\* point is inside the centred cube exactly when each coordinate lies in
\* [-side/2, side/2 - 1], and a point inside, taken as a sphere of radius 0,
\* is accepted by is_inside_quadrant for exactly one octant, the one from_pos
\* gives.
C15_HalfOpenPartition ==
    (probe.kind = "sphere" /\ probe.called /\ probe.sphere.radius = 0) =>
        /\ probe.inside <=>
              /\ probe.sphere.center.x \in -TruncDiv(probe.size, 2) .. TruncDiv(probe.size, 2) - 1
              /\ probe.sphere.center.y \in -TruncDiv(probe.size, 2) .. TruncDiv(probe.size, 2) - 1
              /\ probe.sphere.center.z \in -TruncDiv(probe.size, 2) .. TruncDiv(probe.size, 2) - 1
        /\ probe.inside => probe.accepted = {probe.from_pos}

\* C15 witness: the call was made on a point of the lower faces of the cube,
\* on the mid-plane of one axis.
C15_OnLowerFace ==
    /\ probe.kind = "sphere"
    /\ probe.called
    /\ probe.sphere.radius = 0
    /\ probe.sphere.center = Vec3(-TruncDiv(probe.size, 2), 0, -TruncDiv(probe.size, 2))
    /\ probe.inside
    /\ probe.accepted = {2}

\* the extent of a sphere on one axis lies within the half of a cube of side
\* size the bit positive names: [0, size/2 - 1] if positive, else [-size/2, -1]
within_half(c, r, size, positive) ==
    IF positive
    THEN c - r >= 0 /\ c + r <= TruncDiv(size, 2) - 1
    ELSE c - r >= -TruncDiv(size, 2) /\ c + r <= -1

\* C16: is_inside_quadrant(outerSize, q) is true if and only if, on every
\* axis, [c - r, c + r] lies within the extent of octant q.
C16_InsideQuadrantIffContained ==
    (probe.kind = "sphere" /\ probe.called) =>
        \A q \in Quadrants :
            q \in probe.accepted <=>
                /\ within_half(probe.sphere.center.x, probe.sphere.radius, probe.size, x_p(q))
                /\ within_half(probe.sphere.center.y, probe.sphere.radius, probe.size, y_p(q))
                /\ within_half(probe.sphere.center.z, probe.sphere.radius, probe.size, z_p(q))

\* the extent of a sphere on one axis lies within a cube of side size centred
\* on the origin: [-size/2, size/2 - 1]
within_cube(c, r, size) ==
    c - r >= -TruncDiv(size, 2) /\ c + r <= TruncDiv(size, 2) - 1

\* C17: cell-part classification: get_containing_cell_part returns
\* CenterOutside exactly when the centre is outside the area, else
\* PartlyOutside exactly when on some axis c - r or c + r is outside the area,
\* else Quadrant(q) for the first octant is_inside_quadrant accepts, else
\* MultiQuadrant; so Quadrant and MultiQuadrant are returned only for spheres
\* wholly inside the area.
C17_CellPartClassification ==
    (probe.kind = "sphere" /\ probe.called) =>
        LET wholly_inside ==
                /\ within_cube(probe.sphere.center.x, probe.sphere.radius, probe.size)
                /\ within_cube(probe.sphere.center.y, probe.sphere.radius, probe.size)
                /\ within_cube(probe.sphere.center.z, probe.sphere.radius, probe.size)
        IN  /\ probe.cell_part.part = "CenterOutside" <=> ~probe.inside
            /\ probe.cell_part.part = "PartlyOutside" <=> (probe.inside /\ ~wholly_inside)
            /\ probe.cell_part.part = "Quadrant" <=>
                  (probe.inside /\ wholly_inside /\ probe.accepted # {})
            /\ probe.cell_part.part = "Quadrant" =>
                  /\ probe.cell_part.quadrant \in probe.accepted
                  /\ \A q \in probe.accepted : probe.cell_part.quadrant <= q
            /\ probe.cell_part.part = "MultiQuadrant" <=>
                  (probe.inside /\ wholly_inside /\ probe.accepted = {})

\* C18: quadrant involution laws: for every octant q and every dir of
\* {-1,0,+1}^3, q.mirror(dir).mirror(dir) = q, q.invert().invert() = q,
\* q.move_to((0,0,0)) = Some(q) and q.invert() = q.mirror((1,1,1)).
C18_QuadrantInvolutions ==
    (probe.kind = "quadrant" /\ probe.called) =>
        /\ probe.mirror_twice = probe.quadrant
        /\ probe.invert_twice = probe.quadrant
        /\ probe.move_to_zero = [some |-> TRUE, val |-> probe.quadrant]
        /\ probe.dir = Vec3(1, 1, 1) => probe.invert = probe.mirror

\* C18 witness: the calls were made on XnYpZn with a direction that flips two
\* axes.
C18_Mirrored ==
    /\ probe.kind = "quadrant"
    /\ probe.called
    /\ probe.quadrant = 2
    /\ probe.dir = Vec3(-1, 0, 1)
    /\ probe.mirror = 7
    /\ probe.invert = 5

\* C19: q.move_to(dir) is None if and only if on some axis bit(q) + dir is
\* outside {0,1}; otherwise it is the octant whose bit on each axis is
\* bit(q) + dir, in the bit layout of x_p / y_p / z_p and from_pos.
C19_MoveTo ==
    (probe.kind = "quadrant" /\ probe.called) =>
        LET x == BoolToInt(x_p(probe.quadrant)) + probe.dir.x
            y == BoolToInt(y_p(probe.quadrant)) + probe.dir.y
            z == BoolToInt(z_p(probe.quadrant)) + probe.dir.z
        IN  /\ probe.move_to.some <=> (x \in {0, 1} /\ y \in {0, 1} /\ z \in {0, 1})
            /\ probe.move_to.some =>
                  /\ x_p(probe.move_to.val) <=> x = 1
                  /\ y_p(probe.move_to.val) <=> y = 1
                  /\ z_p(probe.move_to.val) <=> z = 1
                  /\ probe.move_to.val = from_pos(Vec3(x - 1, y - 1, z - 1))

\* C19 witness: a move that stays inside the parent (XnYpZn moved by (+1,-1,0)
\* is XpYnZn) has been made.
C19_Moved ==
    /\ probe.kind = "quadrant"
    /\ probe.called
    /\ probe.quadrant = 2
    /\ probe.dir = Vec3(1, -1, 0)
    /\ probe.move_to = [some |-> TRUE, val |-> 4]

\* the octants that wholly contain the sphere of an entity, against a node
octants_containing(e, node) ==
    {q \in Quadrants :
        /\ within_half(e.bounding_sphere.center.x - center(node).x,
                       e.bounding_sphere.radius, node.area.size, x_p(q))
        /\ within_half(e.bounding_sphere.center.y - center(node).y,
                       e.bounding_sphere.radius, node.area.size, y_p(q))
        /\ within_half(e.bounding_sphere.center.z - center(node).z,
                       e.bounding_sphere.radius, node.area.size, z_p(q))}

\* the child q of a node, or the empty child add_entities would create
child_or_new(node, q) ==
    IF q \in DOMAIN node.sub_trees THEN node.sub_trees[q] ELSE new_sub_tree(node, q)

\* new is old with the entities inserted added by the placement rule: the
\* entities old stored are where they were; if old's own count after
\* insertion is <= 1 or its scale is 0 the inserted entities are in new's own
\* list; otherwise those wholly inside an octant are in that octant's child,
\* placed there by the same rule, and the others in new's own list.
RECURSIVE placed_by_rule(_, _, _)
placed_by_rule(old, new, inserted) ==
    /\ SubSeq(new.entities, 1, Len(old.entities)) = old.entities
    /\ DOMAIN old.sub_trees \subseteq DOMAIN new.sub_trees
    /\ MatterTree_nb_entities(new) = MatterTree_nb_entities(old) + Cardinality(inserted)
    /\ inserted \subseteq members(MatterTree_all(new))
    /\ IF Len(old.entities) + Cardinality(inserted) <= 1 \/ old.scale = 0
       THEN /\ inserted \subseteq members(new.entities)
            /\ new.sub_trees = old.sub_trees
       ELSE /\ \A e \in inserted :
                  IF octants_containing(e, old) = {}
                  THEN e \in members(new.entities)
                  ELSE \E q \in octants_containing(e, old) \cap DOMAIN new.sub_trees :
                          e \in members(MatterTree_all(new.sub_trees[q]))
            /\ \A q \in DOMAIN new.sub_trees :
                  placed_by_rule(child_or_new(old, q), new.sub_trees[q],
                                 inserted \cap members(MatterTree_all(new.sub_trees[q])))

\* C20: add_entities placement rule: a call of add_entities on the matter
\* root leaves the entities already stored where they were, adds exactly the
\* entities inserted, and stores each of them by the placement rule.
C20_AddEntitiesPlacement ==
    [][last' = "add_entities" =>
          /\ Cardinality({e \in members(MatterTree_all(tree'.matter)) : e.id >= next_id})
                = next_id' - next_id
          /\ placed_by_rule(tree.matter, tree'.matter,
                            {e \in members(MatterTree_all(tree'.matter)) : e.id >= next_id})]_vars

(***************************************************************************)
(* Claims C21 - C30.                                                       *)
(***************************************************************************)
\* C21: matter-node geometry: in every reachable state every matter node has
\* area.size = MIN_SIZE * 2^scale with 0 <= scale <= MAX_SCALE, every present
\* child at index q has the scale of its parent less one and the q-octant
\* sub-cube of its parent's area as area, and no node of scale 0 has a child.
C21_MatterNodeGeometry ==
    \A n \in members(SpaceTree_matter_nodes(tree)) :
        /\ n.scale \in 0 .. MAX_SCALE
        /\ n.area.size = MIN_SIZE * 2 ^ n.scale
        /\ n.scale = 0 => DOMAIN n.sub_trees = {}
        /\ \A q \in DOMAIN n.sub_trees :
              /\ n.sub_trees[q].scale = n.scale - 1
              /\ n.sub_trees[q].area.size * 2 = n.area.size
              /\ n.sub_trees[q].area.origin.x
                    = n.area.origin.x + (IF x_p(q) THEN n.sub_trees[q].area.size ELSE 0)
              /\ n.sub_trees[q].area.origin.y
                    = n.area.origin.y + (IF y_p(q) THEN n.sub_trees[q].area.size ELSE 0)
              /\ n.sub_trees[q].area.origin.z
                    = n.area.origin.z + (IF z_p(q) THEN n.sub_trees[q].area.size ELSE 0)

\* C21 witness: two bodies share a node of scale 0, seven levels below the
\* matter root, in an octant that is not the one at the parent's origin.
C21_AtMinSize ==
    \E n \in members(SpaceTree_matter_nodes(tree)) :
        /\ n.scale = 0
        /\ Len(n.entities) = 2
        /\ n.area = Cube(Vec3(96, 96, 96), MIN_SIZE)

\* the depths, below a node, at which its Matter leaves are
RECURSIVE leaf_depths(_)
leaf_depths(self) ==
    IF self.kind = "Matter" THEN {0}
    ELSE UNION {{d + 1 : d \in leaf_depths(self.sub_trees[i])} : i \in DOMAIN self.sub_trees}

\* C22: space-tree shape: in every state reached through refresh, every child
\* of a Parent of scale 0 is a Matter leaf and every child of a Parent of
\* scale s > 0 is a Parent of scale s - 1, so all matter leaves are at the
\* same depth below the root.
C22_SpaceTreeShape ==
    /\ Cardinality(leaf_depths(tree)) <= 1
    /\ \A n \in members(SpaceTree_nodes(tree)) :
          n.kind = "Parent" =>
              \A i \in DOMAIN n.sub_trees :
                  IF n.scale = 0
                  THEN n.sub_trees[i].kind = "Matter"
                  ELSE /\ n.sub_trees[i].kind = "Parent"
                       /\ n.sub_trees[i].scale = n.scale - 1

\* C22 witness: a refresh has grown the root a second time: the root is a
\* Parent of scale 1 with two children, and a matter leaf two levels down was
\* built by the relocation.
C22_TwoLevels ==
    /\ Refreshed_returned
    /\ refreshed.steps # <<>>
    /\ tree.kind = "Parent"
    /\ tree.scale = 1
    /\ Cardinality(DOMAIN tree.sub_trees) = 2
    /\ SpaceTree_nb_nodes(tree) = 2

\* C23: integration step: run_movement translates the centre by the velocity
\* held before the call, adds external_forces / mass (the control forces of
\* the player included) to the velocity only when mass is not zero, leaves the
\* velocity of an entity of mass 0, the radius and the mass unchanged, and
\* ends with external_forces = (0,0,0).
C23_IntegrationStep ==
    (probe.kind = "movement" /\ probe.called) =>
        LET e == probe.entity
            forces == IF e.entity = "Player"
                      THEN add(e.external_forces, probe.control_forces)
                      ELSE e.external_forces
        IN  /\ probe.moved.bounding_sphere.center = add(e.bounding_sphere.center, e.speed)
            /\ e.mass # 0 =>
                  probe.moved.speed = Vec3(e.speed.x + TruncDiv(forces.x, e.mass),
                                           e.speed.y + TruncDiv(forces.y, e.mass),
                                           e.speed.z + TruncDiv(forces.z, e.mass))
            /\ e.mass = 0 => probe.moved.speed = e.speed
            /\ probe.moved.bounding_sphere.radius = e.bounding_sphere.radius
            /\ probe.moved.mass = e.mass
            /\ probe.moved.entity = e.entity
            /\ probe.moved.external_forces = ZERO

\* C23 witness: a moving player under a control force and an external force
\* has been integrated, and its velocity has changed.
C23_PlayerPushed ==
    /\ probe.kind = "movement"
    /\ probe.called
    /\ probe.entity.entity = "Player"
    /\ probe.entity.mass = MASS
    /\ probe.entity.speed = Vec3(1, 2, 0)
    /\ probe.entity.external_forces = Vec3(150, 0, -70)
    /\ probe.control_forces = Vec3(CONTROL_FORCE, 0, 0)
    /\ probe.moved.speed = Vec3(102, 2, 0)
    /\ probe.moved.bounding_sphere.center = Vec3(11, -18, 30)

\* the entities run_actions has just spawned: those of the tree that the tree
\* before the pass did not hold
spawned == {e \in members(SpaceTree_all(tree)) : e.id \notin ids(SpaceTree_all(before))}

\* C24: spawn ordering: an entity spawned by run_actions is not displaced by
\* the integration of the same tick: after the run_movements pass that follows
\* the run_actions pass its centre is the centre it was given when spawned.
C24_SpawnOrdering ==
    [][(last = "run_actions" /\ last' = "run_movements") =>
          \A e \in spawned :
              \E moved \in members(SpaceTree_all(tree')) :
                  /\ moved.id = e.id
                  /\ moved.bounding_sphere.center = e.bounding_sphere.center]_vars

\* C25: collision at most once per pair: in one collision pass on the
\* universe, apply_collision is called at most once for every unordered pair
\* of distinct entities, the pairs local to one node and the pairs of a
\* node's entity with an entity of one of its children both counted, and
\* never on an entity and itself.
C25_CollisionOncePerPair ==
    (probe.kind = "collisions" /\ probe.called) =>
        /\ \A k \in 1 .. Len(probe.calls) : probe.calls[k][1] # probe.calls[k][2]
        /\ \A k \in 1 .. Len(probe.calls) :
              \A l \in (k + 1) .. Len(probe.calls) :
                  {probe.calls[k][1], probe.calls[k][2]}
                      # {probe.calls[l][1], probe.calls[l][2]}

\* C25 witness: a pass has applied a collision to a pair of entities of the
\* root's own list and to a pair formed by an entity of the root and an entity
\* of one of its children.
C25_LocalAndChildPairs ==
    /\ probe.kind = "collisions"
    /\ probe.called
    /\ probe.universe.kind = "Matter"
    /\ \E k \in 1 .. Len(probe.calls) :
          /\ probe.calls[k][1] \in ids(probe.universe.matter.entities)
          /\ probe.calls[k][2] \in ids(probe.universe.matter.entities)
    /\ \E k \in 1 .. Len(probe.calls) :
          /\ probe.calls[k][1] \notin ids(probe.universe.matter.entities)
          /\ probe.calls[k][2] \in ids(probe.universe.matter.entities)

\* the octants of the former universes in a universe, the innermost first
RECURSIVE growth_quadrants(_)
growth_quadrants(universe) ==
    IF DOMAIN universe.sub_trees = {} THEN <<>>
    ELSE Append(growth_quadrants(
                    universe.sub_trees[CHOOSE q \in DOMAIN universe.sub_trees : TRUE]),
                CHOOSE q \in DOMAIN universe.sub_trees : TRUE)

\* C26: entity insertion terminates: for every entity, whatever its centre
\* and radius, insert_entity returns after finitely many growth steps; each
\* step places the former universe in the octant opposite to the octant of
\* the entity's centre; on return the entity is contained in the root cell
\* and the list returned holds one quadrant per growth step, in order.
C26_InsertionTerminates ==
    (probe.kind = "insert" /\ probe.called) =>
        /\ probe.inserted.end = "returned"
        /\ Len(probe.inserted.scale_up) = probe.inserted.universe.scale
        /\ growth_quadrants(probe.inserted.universe) = probe.inserted.scale_up
        /\ \A k \in 1 .. Len(probe.inserted.scale_up) :
              /\ x_p(probe.inserted.scale_up[k]) <=> probe.inserted.centers[k].x < 0
              /\ y_p(probe.inserted.scale_up[k]) <=> probe.inserted.centers[k].y < 0
              /\ z_p(probe.inserted.scale_up[k]) <=> probe.inserted.centers[k].z < 0
        /\ within_cube(probe.inserted.entity.bounding_sphere.center.x,
                       probe.inserted.entity.bounding_sphere.radius, SPACE_CELL_SIZE)
        /\ within_cube(probe.inserted.entity.bounding_sphere.center.y,
                       probe.inserted.entity.bounding_sphere.radius, SPACE_CELL_SIZE)
        /\ within_cube(probe.inserted.entity.bounding_sphere.center.z,
                       probe.inserted.entity.bounding_sphere.radius, SPACE_CELL_SIZE)

\* the matter leaves of a space tree, each with its grid offset relative to
\* the lower corner of the root, read from the octant path: the child i of a
\* Parent of scale s is 2^s leaves further on the axes of the bits of i
RECURSIVE leaves_at(_, _)
leaves_at(self, offset) ==
    IF self.kind = "Matter" THEN {[offset |-> offset, matter |-> self.matter]}
    ELSE UNION {leaves_at(self.sub_trees[i],
                          add(offset, mul_scalar(Vec3(BoolToInt(x_p(i)), BoolToInt(y_p(i)),
                                                      BoolToInt(z_p(i))), 2 ^ self.scale))) :
                i \in DOMAIN self.sub_trees}

\* the entities a space tree stores, each with the grid offset of its leaf
located(self) ==
    UNION {{[id |-> e.id, center |-> e.bounding_sphere.center, offset |-> l.offset] :
            e \in members(MatterTree_all(l.matter))} : l \in leaves_at(self, ZERO)}

\* the entities the refresh of their matter leaf evicts, with the direction
\* they leave in
evicted(self) ==
    UNION {{[id |-> e.id, center |-> e.bounding_sphere.center, offset |-> l.offset,
             direction |-> outsider_direction_vec(e.bounding_sphere.center, MAX_SIZE)] :
            e \in members(MatterTree_refresh(l.matter).outsiders)} : l \in leaves_at(self, ZERO)}

\* the world position: the grid offset times MAX_SIZE plus the local centre
world(l) == add(mul_scalar(l.offset, MAX_SIZE), l.center)

\* C27: relocation preserves world position: every entity evicted from a
\* matter leaf L with direction d is, after refresh, stored in the matter leaf
\* at grid offset L + d, and its world position (grid offset of its leaf times
\* MAX_SIZE plus local centre), measured relative to any entity that did not
\* cross, is unchanged; whether the crossing is resolved at a sibling, at a
\* higher ancestor or by root growth.
C27_RelocationPreservesWorldPosition ==
    last = "refresh" =>
        \A e \in evicted(before) :
            /\ status = "running"
            /\ \E e2 \in located(tree) : e2.id = e.id
            /\ \A f \in located(before) :
                  f.id \notin {x.id : x \in evicted(before)} =>
                      \A f2 \in located(tree) :
                          f2.id = f.id =>
                              \E e2 \in located(tree) :
                                  /\ e2.id = e.id
                                  /\ sub(e2.offset, f2.offset)
                                        = sub(add(e.offset, e.direction), f.offset)
                                  /\ sub(world(e2), world(f2)) = sub(world(e), world(f))

\* the scale of the root after the k-th growth step of a refresh that started
\* from the tree self (a Matter root counts as scale -1)
grown_scale(self, k) == (IF self.kind = "Parent" THEN self.scale ELSE -1) + k

\* C28: path-length invariant: no pop of relocate_entities fails, and an
\* outsider resolved at a Parent of scale s (sent to a sibling of the child it
\* came from), or inserted by a growth step that made a root of scale s,
\* carries exactly s path entries for the descent below the chosen child (the
\* growth step pushes the entry of the chosen child too), so that its path is
\* empty when it reaches a Matter leaf.
C28_PathLength ==
    last = "refresh" =>
        /\ SpaceTree_refresh(before).ok
        /\ \A n \in members(SpaceTree_nodes(before)) :
              n.kind = "Parent" =>
                  \A i \in DOMAIN n.sub_trees :
                      \A o \in members(SpaceTree_refresh(n.sub_trees[i]).outsiders) :
                          move_to(i, o.direction).some => Len(o.path) = n.scale
        /\ \A k \in 1 .. Len(refreshed.steps) :
              \A p \in refreshed.steps[k].paths :
                  Len(p.path) = grown_scale(before, k) + 1

\* C28 witness: an outsider came out of a Parent root of scale 0 with one path
\* entry and a growth step inserted it, with two path entries, below a root of
\* scale 1.
C28_TwoEntries ==
    /\ Refreshed_returned
    /\ before.kind = "Parent"
    /\ \E o \in members(refreshed.outsiders) : Len(o.path) = 1
    /\ \E k \in 1 .. Len(refreshed.steps) :
          \E p \in refreshed.steps[k].paths :
              Len(p.path) = 2 /\ grown_scale(before, k) = 1


\* C29: the outsider direction is consistent with containment: for an even
\* size, outsider_direction_vec(pos, size) is the zero vector exactly when pos
\* is inside the half-open centred cube of that side, each component is -1
\* below the cube, +1 at or above its open upper face and 0 between; and every
\* entity a matter root's refresh returns gets the direction of its centre
\* against MAX_SIZE, which has a non-zero component.
C29_DirectionMatchesContainment ==
    (probe.kind = "direction" /\ probe.called) =>
        LET h == TruncDiv(probe.size, 2)
        IN  /\ probe.direction = ZERO <=> probe.inside
            /\ probe.direction.x =
                  (IF probe.pos.x < -h THEN -1 ELSE IF probe.pos.x > h - 1 THEN 1 ELSE 0)
            /\ probe.direction.y =
                  (IF probe.pos.y < -h THEN -1 ELSE IF probe.pos.y > h - 1 THEN 1 ELSE 0)
            /\ probe.direction.z =
                  (IF probe.pos.z < -h THEN -1 ELSE IF probe.pos.z > h - 1 THEN 1 ELSE 0)
            /\ \A k \in 1 .. Len(probe.outsiders) :
                  /\ probe.outsiders[k].direction # ZERO
                  /\ probe.outsiders[k].direction
                        = outsider_direction_vec(probe.pos, MAX_SIZE)

\* C29 witness: a body moved to the first coordinate beyond the +x face and to
\* the last one inside the -z face of the matter root is returned by the
\* root's refresh with the direction (1, 0, 0).
C29_OutOfTheUpperFace ==
    /\ probe.kind = "direction"
    /\ probe.called
    /\ probe.size = MAX_SIZE
    /\ probe.pos = Vec3(TruncDiv(MAX_SIZE, 2), 0, -TruncDiv(MAX_SIZE, 2))
    /\ probe.direction = Vec3(1, 0, 0)
    /\ Len(probe.outsiders) = 1
    /\ probe.outsiders[1].direction = Vec3(1, 0, 0)


\* C30: refresh frame condition: GrowableSpaceTree::refresh changes the
\* velocity, the mass, the radius and the payload of no entity it keeps; the
\* centre of an entity evicted from a matter-tree root is shifted once, by
\* direction * MAX_SIZE into the frame of the leaf it goes to; the centre of an
\* entity that stays in its matter tree is kept, even if it changes node.
C30_RefreshFrame ==
    last = "refresh" =>
        \A e \in members(SpaceTree_all(before)) :
            \A e2 \in members(SpaceTree_all(tree)) :
                e2.id = e.id =>
                    /\ e2.speed = e.speed
                    /\ e2.mass = e.mass
                    /\ e2.bounding_sphere.radius = e.bounding_sphere.radius
                    /\ e2.entity = e.entity
                    /\ e2.bounding_sphere.center =
                          (IF \E x \in evicted(before) : x.id = e.id
                           THEN sub(e.bounding_sphere.center,
                                    mul_scalar(outsider_direction_vec(e.bounding_sphere.center,
                                                                      MAX_SIZE),
                                               MAX_SIZE))
                           ELSE e.bounding_sphere.center)

\* C30 witness: a refresh returned after which an entity evicted through the
\* +x face is stored with its centre shifted by MAX_SIZE along x, next to an
\* entity that was not evicted and is stored with the centre it had.
C30_ShiftedAndKept ==
    /\ Refreshed_returned
    /\ \E x \in evicted(before) :
          /\ x.direction = Vec3(1, 0, 0)
          /\ \E e2 \in members(SpaceTree_all(tree)) :
                /\ e2.id = x.id
                /\ e2.bounding_sphere.center = sub(x.center, Vec3(MAX_SIZE, 0, 0))
    /\ \E e \in members(SpaceTree_all(before)) :
          /\ \A x \in evicted(before) : x.id # e.id
          /\ \E e2 \in members(SpaceTree_all(tree)) :
                e2.id = e.id /\ e2.bounding_sphere.center = e.bounding_sphere.center


(***************************************************************************)
(* Claims C31 - C36                                                        *)
(***************************************************************************)
\* C31: refresh is idempotent when nothing moves: a refresh applied to the
\* tree a refresh has just returned, with no run_actions or run_movements in
\* between, returns and leaves the same tree (same nodes, same entity
\* placement).
C31_RefreshIdempotent ==
    Refreshed_returned =>
        /\ GrowableSpaceTree_refresh(tree).end = "returned"
        /\ GrowableSpaceTree_refresh(tree).tree = tree


\* C32: the octant tests agree: is_inside_quadrant accepts at most one octant
\* of a cell for a sphere of radius >= 0, that octant is from_pos of the
\* centre relative to the cell centre, and octant q accepts the sphere exactly
\* when get_containing_cell_part classifies it neither CenterOutside nor
\* PartlyOutside against the area of child q; hence the refresh of child q
\* does not evict a body that an accepting octant q was given and that has
\* not moved.
C32_OctantTestsAgree ==
    (probe.kind = "sphere" /\ probe.called) =>
        /\ Cardinality(probe.accepted) <= 1
        /\ probe.accepted \subseteq {probe.from_pos}
        /\ \A q \in Quadrants :
              q \in probe.accepted <=>
                  probe.child_parts[q] \notin {"CenterOutside", "PartlyOutside"}
        /\ \A q \in probe.accepted : q \notin probe.evicted_by

\* C32 witness: a sphere of radius 2 in a cell of side 8 whose centre octant 7
\* accepts and whose child 7 keeps it, while the children of the other octants
\* evict it.
C32_AcceptedAndKept ==
    /\ probe.kind = "sphere"
    /\ probe.called
    /\ probe.size = 8
    /\ probe.sphere = Sphere(Vec3(1, 1, 1), 2)
    /\ probe.accepted = {7}
    /\ probe.from_pos = 7
    /\ probe.child_parts[7] \notin {"CenterOutside", "PartlyOutside"}
    /\ probe.evicted_by = Quadrants \ {7}


\* the coordinate c is in the half of the centred cube of side size that the
\* bit upper selects, enlarged by r on both sides
within_grown(c, r, size, upper) ==
    IF upper
    THEN c >= -r /\ c <= TruncDiv(size, 2) - 1 + r
    ELSE c >= -TruncDiv(size, 2) - r /\ c <= r - 1

\* C33: get_collisioned_quadrants(area) returns exactly the octants q for
\* which the centre of the entity lies inside the q-octant sub-cube of area
\* enlarged by the radius on every side, the x, y and z axes being tested each
\* against its own bit of q.
C33_CollisionedQuadrants ==
    (probe.kind = "sphere" /\ probe.called) =>
        probe.collisioned =
            {q \in Quadrants :
                /\ within_grown(probe.sphere.center.x, probe.sphere.radius, probe.size, x_p(q))
                /\ within_grown(probe.sphere.center.y, probe.sphere.radius, probe.size, y_p(q))
                /\ within_grown(probe.sphere.center.z, probe.sphere.radius, probe.size, z_p(q))}


\* C34: action spawning: one run_actions pass leaves every matter node in
\* place with the entities it held, in order, and appends to the list of each
\* node one new entity for each player of that list if the controller has
\* drop_block set, none otherwise; the new entity has the velocity of its
\* player, radius 1 and mass 0, and it spawns nothing in that pass.
C34_ActionSpawning ==
    last = "run_actions" =>
        LET held == SpaceTree_matter_nodes(before)
            kept == SpaceTree_matter_nodes(tree)
        IN  /\ Len(kept) = Len(held)
            /\ \A k \in 1 .. Len(held) :
                  LET players == SelectSeq(held[k].entities, LAMBDA e : e.entity = "Player")
                      n == Len(held[k].entities)
                  IN  /\ kept[k].area = held[k].area
                      /\ kept[k].scale = held[k].scale
                      /\ Len(kept[k].entities)
                            = n + (IF player.drop_block THEN Len(players) ELSE 0)
                      /\ SubSeq(kept[k].entities, 1, n) = held[k].entities
                      /\ \A j \in 1 .. (Len(kept[k].entities) - n) :
                            /\ kept[k].entities[n + j].id \notin ids(SpaceTree_all(before))
                            /\ kept[k].entities[n + j].speed = players[j].speed
                            /\ kept[k].entities[n + j].bounding_sphere.radius = 1
                            /\ kept[k].entities[n + j].mass = 0
                            /\ kept[k].entities[n + j].entity = "Voxels"

\* C34 witness: a run_actions pass with drop_block set on a tree whose only
\* entity is a player with a non-zero velocity: the list of the player's node
\* ends with a rock that has this velocity.
C34_RockBesidePlayer ==
    /\ last = "run_actions"
    /\ player.drop_block
    /\ \E k \in 1 .. Len(SpaceTree_matter_nodes(before)) :
          LET node == SpaceTree_matter_nodes(before)[k]
              after == SpaceTree_matter_nodes(tree)[k]
          IN  /\ Len(node.entities) = 1
              /\ node.entities[1].entity = "Player"
              /\ node.entities[1].speed # ZERO
              /\ Len(after.entities) = 2
              /\ after.entities[2].speed = node.entities[1].speed


\* C35: node counting: nb_nodes returns the number of space-tree nodes
\* present (Parent nodes and Matter leaves) and nb_matter_nodes the number of
\* matter-tree nodes present (each matter root and all its descendant cells),
\* for every reachable tree.
C35_NodeCounting ==
    /\ SpaceTree_nb_nodes(tree) = Len(SpaceTree_nodes(tree))
    /\ SpaceTree_nb_matter_nodes(tree) = Len(SpaceTree_matter_nodes(tree))


\* the class of the coordinate c against the half-size h: 0 below -h, 1 from
\* -h to h - 1, 2 from h on
classify(c, h) == IF c < -h THEN 0 ELSE IF c < h THEN 1 ELSE 2

\* C36: FineDirection round trip: from_outsider_pos(pos, H) is the code
\* 9*cx + 3*cy + cz of the per-axis classes of pos against the half-size H,
\* and equivalent_vec of that code is (cx - 1, cy - 1, cz - 1), every
\* component in {-1, 0, +1}.
C36_FineDirectionRoundTrip ==
    (probe.kind = "direction" /\ probe.called) =>
        LET h == TruncDiv(probe.size, 2)
            cx == classify(probe.pos.x, h)
            cy == classify(probe.pos.y, h)
            cz == classify(probe.pos.z, h)
        IN  /\ probe.fine = 9 * cx + 3 * cy + cz
            /\ probe.equivalent = Vec3(cx - 1, cy - 1, cz - 1)
            /\ probe.equivalent \in Dirs

====
